---- MODULE Spec2Model ----
(***************************************************************************)
(* A model of fiat-lux: the scripture reference parsers (book.rs,          *)
(* location.rs), the in-memory corpus index and approximate search of      *)
(* bible-cli/src/main.rs, and the facet search of src/main.rs.             *)
(*                                                                         *)
(* A Rust str is modelled as the sequence of its bytes.  An ASCII byte is  *)
(* the one-character string that shows it; the two bytes of a two-byte     *)
(* UTF-8 character are the tokens "xC3" (lead) and "xA9" (continuation).   *)
(* Option<T> is a sequence of length at most one: None is <<>> and         *)
(* Some(x) is <<x>>.                                                       *)
(***************************************************************************)
EXTENDS Integers, Sequences, FiniteSets, TLC

VARIABLES
    locInput,     \* the string handed to PartialLocation::from_str
    locResult,    \* Option of its Result
    probe,        \* Option of the verse number handed to Verse::contains
    probeResult,  \* Option of the bool Verse::contains returned
    bookInput,    \* the string handed to Book::from_str
    bookResult,   \* Option of its Result
    bookShown,    \* Option of the text Display wrote for the parsed book
    bookTransition, \* Option of what first_numeric_nonnumeric_transition gave
    bookOrdinal,  \* Option of the number handed to Book::from_u8
    bookConverted, \* Option of what Book::from_u8 gave: Option of the book
    corpus,       \* bible-cli: the bytes of the translation's .dat text
    pc,           \* bible-cli: "idle", "build", "built", "done" or "panic"
    cursor,       \* bible-cli: how many lines build_index has consumed
    index,        \* bible-cli: the Index, an IndexMap of IndexMaps
    request,      \* bible-cli: Option of the book and location asked for
    outcome,      \* bible-cli: Option of what run printed or returned
    needle,       \* bible-cli search: Option of the query string
    candidates,   \* bible-cli search: the lines search printed, in order
    dat,          \* fiat-lux: the bytes of KJV_DAT and ASV_DAT, by translation
    disk,         \* fiat-lux: the tantivy index directory: exists, committed documents
    fpc,          \* fiat-lux: "start", "write_kjv", "write_asv", "ready", "done", "panic" or "stopped"
    asked,        \* fiat-lux: Option of the book, location and translation asked for
    texts,        \* fiat-lux: the Vec<Text> search_by_book_and_location returned
    winInput,     \* Option of the text and length handed to SplitWindows::windows
    winOutput,    \* Option of the windows it yielded, in order
    fmtpc,        \* format_texts: "idle", "loop" (in the for loop), "done"
    listed,       \* format_texts: the texts it was handed
    position,     \* format_texts: the 1-based index of the next text of the loop
    current,      \* format_texts: Option of the Chapter of the open section
    section_verse_count,  \* format_texts: verse rows emitted in the open section
    table         \* format_texts: the rows added to the table so far

locVars == <<locInput, locResult, probe, probeResult>>

bookVars == <<bookInput, bookResult, bookShown, bookTransition, bookOrdinal, bookConverted>>

cliVars == <<corpus, pc, cursor, index, request, outcome, needle, candidates>>

facetVars == <<dat, disk, fpc, asked, texts>>

libVars == <<winInput, winOutput>>

fmtVars == <<fmtpc, listed, position, current, section_verse_count, table>>

vars == <<locVars, bookVars, cliVars, facetVars, libVars, fmtVars>>

----------------------------------------------------------------------------
(* Bytes and strings *)

None == <<>>

Some(x) == <<x>>

Digits == <<"0", "1", "2", "3", "4", "5", "6", "7", "8", "9">>

Lower == <<"a", "b", "c", "d", "e", "f", "g", "h", "i", "j", "k", "l", "m",
           "n", "o", "p", "q", "r", "s", "t", "u", "v", "w", "x", "y", "z">>

Upper == <<"A", "B", "C", "D", "E", "F", "G", "H", "I", "J", "K", "L", "M",
           "N", "O", "P", "Q", "R", "S", "T", "U", "V", "W", "X", "Y", "Z">>

Range(f) == {f[i] : i \in DOMAIN f}

is_ascii_digit(b) == b \in Range(Digits)

DigitVal(b) == (CHOOSE i \in DOMAIN Digits : Digits[i] = b) - 1

\* The largest values of the unsigned integer types the parsers produce.
U8Max == 255

U16Max == 65535

\* <u8|u16 as FromStr>::from_str: an optional leading '+' (not alone), then
\* decimal digits only, accumulated with an overflow check.  The result is
\* [ok |-> TRUE, val |-> n, kind |-> "Ok"] or [ok |-> FALSE, val |-> 0, kind |-> k]
\* with k the IntErrorKind.
RECURSIVE AccumulateDigits(_, _, _)
AccumulateDigits(ds, acc, max) ==
    IF ds = <<>> THEN [ok |-> TRUE, val |-> acc, kind |-> "Ok"]
    ELSE IF ~is_ascii_digit(Head(ds)) THEN [ok |-> FALSE, val |-> 0, kind |-> "InvalidDigit"]
    ELSE LET next == acc * 10 + DigitVal(Head(ds))
         IN  IF next > max THEN [ok |-> FALSE, val |-> 0, kind |-> "PosOverflow"]
             ELSE AccumulateDigits(Tail(ds), next, max)

parse_unsigned(src, max) ==
    IF src = <<>> THEN [ok |-> FALSE, val |-> 0, kind |-> "Empty"]
    ELSE IF Len(src) = 1 /\ Head(src) \in {"+", "-"}
         THEN [ok |-> FALSE, val |-> 0, kind |-> "InvalidDigit"]
    ELSE IF Head(src) = "+" THEN AccumulateDigits(Tail(src), 0, max)
    ELSE AccumulateDigits(src, 0, max)

\* The parse of a NonZero as it would be if zero were let through.
parse_nonzero_AllowZero(src, max) == parse_unsigned(src, max)

\* <NonZero<u8|u16> as FromStr>::from_str: the unsigned parse, then zero is
\* the error kind Zero.
parse_nonzero(src, max) ==
    LET r == parse_unsigned(src, max)
    IN  IF r.ok /\ r.val = 0 THEN [ok |-> FALSE, val |-> 0, kind |-> "Zero"] ELSE r

\* Display of an unsigned integer: decimal, no sign, no leading zeros.
RECURSIVE FormatUnsigned(_)
FormatUnsigned(n) ==
    IF n < 10 THEN <<Digits[n + 1]>>
    ELSE Append(FormatUnsigned(n \div 10), Digits[(n % 10) + 1])

\* The byte index (1-based here) of the first byte of s equal to b, or 0.
FindByte(s, b) ==
    IF \E i \in DOMAIN s : s[i] = b
    THEN CHOOSE i \in DOMAIN s : s[i] = b /\ \A j \in 1..(i - 1) : s[j] # b
    ELSE 0

\* str::split_once(b): None, or Some of the parts before and after the
\* first occurrence of b.
split_once(s, b) ==
    LET i == FindByte(s, b)
    IN  IF i = 0 THEN None
        ELSE Some(<<SubSeq(s, 1, i - 1), SubSeq(s, i + 1, Len(s))>>)

\* A byte on which a character starts: every byte but a continuation byte.
IsCharBoundaryByte(b) == b # "xA9"

\* str::is_char_boundary(i), i a 0-based byte offset.
is_char_boundary(s, i) ==
    \/ i = 0
    \/ i = Len(s)
    \/ (i < Len(s) /\ IsCharBoundaryByte(s[i + 1]))

\* AbbrevStr::get: Some(text) for the string it returns, None for its panic
\* (a slice that ends inside a character).
AbbrevStr_get(full, limit) ==
    IF Len(full) > limit
    THEN IF is_char_boundary(full, limit)
         THEN Some(SubSeq(full, 1, limit) \o <<".", ".", ".">>)
         ELSE None
    ELSE Some(full)

----------------------------------------------------------------------------
(* location.rs: PartialLocation, Verse, ParseLocationError *)

\* The truncation limit of ParseLocationError's text.
LocationErrorLimit == 10

\* A Result<_, ParseLocationError>, or the panic of the call.  The fields a
\* tag does not use hold fixed fillers, so that results compare.
LocOk(chapter, verse) ==
    [tag |-> "Ok", chapter |-> chapter, verse |-> verse,
     kind |-> "", text |-> <<>>, cause |-> ""]

LocPanic ==
    [tag |-> "Panic", chapter |-> 0, verse |-> None,
     kind |-> "", text |-> <<>>, cause |-> ""]

\* ParseLocationError::chapter and ParseLocationError::verse: the error keeps
\* the abbreviated text and the ParseIntError.
ParseLocationError(kind, text, cause) ==
    LET abbrev == AbbrevStr_get(text, LocationErrorLimit)
    IN  IF abbrev = None THEN LocPanic
        ELSE [tag |-> "Err", chapter |-> 0, verse |-> None,
              kind |-> kind, text |-> abbrev[1], cause |-> cause]

\* Verse::from_str as it would be if it put an inverted range in order.
Verse_from_str_Ordering(s) ==
    LET parts == split_once(s, "-")
    IN  IF parts # None
        THEN LET start == parse_nonzero(parts[1][1], U16Max)
                 end   == parse_nonzero(parts[1][2], U16Max)
             IN  IF ~start.ok THEN ParseLocationError("Verse", s, start.kind)
                 ELSE IF ~end.ok THEN ParseLocationError("Verse", s, end.kind)
                 ELSE IF end.val < start.val
                      THEN LocOk(0, Some([start |-> end.val, end |-> Some(start.val)]))
                      ELSE LocOk(0, Some([start |-> start.val, end |-> Some(end.val)]))
        ELSE LET start == parse_nonzero(s, U16Max)
             IN  IF ~start.ok THEN ParseLocationError("Verse", s, start.kind)
                 ELSE LocOk(0, Some([start |-> start.val, end |-> None]))

\* Verse::from_str.  Ok carries the Verse in the field verse.
Verse_from_str(s) ==
    LET parts == split_once(s, "-")
    IN  IF parts # None
        THEN LET start == parse_nonzero(parts[1][1], U16Max)
                 end   == parse_nonzero(parts[1][2], U16Max)
             IN  IF ~start.ok THEN ParseLocationError("Verse", s, start.kind)
                 ELSE IF ~end.ok THEN ParseLocationError("Verse", s, end.kind)
                 ELSE LocOk(0, Some([start |-> start.val, end |-> Some(end.val)]))
        ELSE LET start == parse_nonzero(s, U16Max)
             IN  IF ~start.ok THEN ParseLocationError("Verse", s, start.kind)
                 ELSE LocOk(0, Some([start |-> start.val, end |-> None]))

\* PartialLocation::from_str.
PartialLocation_from_str(s) ==
    LET parts   == split_once(s, ":")
        chapter == IF parts = None THEN s ELSE parts[1][1]
        verse   == IF parts = None THEN <<>> ELSE parts[1][2]
        c       == parse_unsigned(chapter, U16Max)
    IN  IF ~c.ok THEN ParseLocationError("Chapter", chapter, c.kind)
        ELSE IF verse = <<>> THEN LocOk(c.val, None)
        ELSE LET v == Verse_from_str(verse)
             IN  IF v.tag = "Ok" THEN LocOk(c.val, v.verse) ELSE v

\* Verse::contains as it would be if the end of a range were exclusive.
Verse_contains_ExclusiveEnd(self, verse) ==
    IF verse = 0 THEN FALSE
    ELSE IF self.end # None
         THEN verse >= self.start /\ verse < self.end[1]
         ELSE verse = self.start

\* Verse::contains.
Verse_contains(self, verse) ==
    IF verse = 0 THEN FALSE
    ELSE IF self.end # None
         THEN verse >= self.start /\ verse <= self.end[1]
         ELSE verse = self.start

----------------------------------------------------------------------------
(* book.rs: Book, Book::from_str, book_name_in_parts *)

\* enum Book: the variants in declaration order; a book's discriminant
\* (book as u8) is its place in this sequence, Genesis = 1.
Books ==
    <<"Genesis", "Exodus", "Leviticus", "Numbers", "Deuteronomy",
      "Joshua", "Judges", "Ruth", "Samuel1", "Samuel2",
      "Kings1", "Kings2", "Chronicles1", "Chronicles2", "Ezra",
      "Nehemiah", "Esther", "Job", "Psalms", "Proverbs",
      "Ecclesiastes", "SongofSongs", "Isaiah", "Jeremiah", "Lamentations",
      "Ezekiel", "Daniel", "Hosea", "Joel", "Amos",
      "Obadiah", "Jonah", "Micah", "Nahum", "Habakkuk",
      "Zephaniah", "Haggai", "Zechariah", "Malachi", "Matthew",
      "Mark", "Luke", "John", "Acts", "Romans",
      "Corinthians1", "Corinthians2", "Galatians", "Ephesians", "Philippians",
      "Colossians", "Thessalonians1", "Thessalonians2", "Timothy1", "Timothy2",
      "Titus", "Philemon", "Hebrews", "James", "Peter1",
      "Peter2", "John1", "John2", "John3", "Jude",
      "Revelation">>

\* Book::name.
Book_name(self) ==
    CASE self = "Genesis" -> <<"G", "e", "n", "e", "s", "i", "s">>
      [] self = "Exodus" -> <<"E", "x", "o", "d", "u", "s">>
      [] self = "Leviticus" -> <<"L", "e", "v", "i", "t", "i", "c", "u", "s">>
      [] self = "Numbers" -> <<"N", "u", "m", "b", "e", "r", "s">>
      [] self = "Deuteronomy" -> <<"D", "e", "u", "t", "e", "r", "o", "n", "o", "m", "y">>
      [] self = "Joshua" -> <<"J", "o", "s", "h", "u", "a">>
      [] self = "Judges" -> <<"J", "u", "d", "g", "e", "s">>
      [] self = "Ruth" -> <<"R", "u", "t", "h">>
      [] self = "Samuel1" -> <<"1", " ", "S", "a", "m", "u", "e", "l">>
      [] self = "Samuel2" -> <<"2", " ", "S", "a", "m", "u", "e", "l">>
      [] self = "Kings1" -> <<"1", " ", "K", "i", "n", "g", "s">>
      [] self = "Kings2" -> <<"2", " ", "K", "i", "n", "g", "s">>
      [] self = "Chronicles1" -> <<"1", " ", "C", "h", "r", "o", "n", "i", "c", "l", "e", "s">>
      [] self = "Chronicles2" -> <<"2", " ", "C", "h", "r", "o", "n", "i", "c", "l", "e", "s">>
      [] self = "Ezra" -> <<"E", "z", "r", "a">>
      [] self = "Nehemiah" -> <<"N", "e", "h", "e", "m", "i", "a", "h">>
      [] self = "Esther" -> <<"E", "s", "t", "h", "e", "r">>
      [] self = "Job" -> <<"J", "o", "b">>
      [] self = "Psalms" -> <<"P", "s", "a", "l", "m", "s">>
      [] self = "Proverbs" -> <<"P", "r", "o", "v", "e", "r", "b", "s">>
      [] self = "Ecclesiastes" -> <<"E", "c", "c", "l", "e", "s", "i", "a", "s", "t", "e", "s">>
      [] self = "SongofSongs" -> <<"S", "o", "n", "g", " ", "o", "f", " ", "S", "o", "n", "g", "s">>
      [] self = "Isaiah" -> <<"I", "s", "a", "i", "a", "h">>
      [] self = "Jeremiah" -> <<"J", "e", "r", "e", "m", "i", "a", "h">>
      [] self = "Lamentations" -> <<"L", "a", "m", "e", "n", "t", "a", "t", "i", "o", "n", "s">>
      [] self = "Ezekiel" -> <<"E", "z", "e", "k", "i", "e", "l">>
      [] self = "Daniel" -> <<"D", "a", "n", "i", "e", "l">>
      [] self = "Hosea" -> <<"H", "o", "s", "e", "a">>
      [] self = "Joel" -> <<"J", "o", "e", "l">>
      [] self = "Amos" -> <<"A", "m", "o", "s">>
      [] self = "Obadiah" -> <<"O", "b", "a", "d", "i", "a", "h">>
      [] self = "Jonah" -> <<"J", "o", "n", "a", "h">>
      [] self = "Micah" -> <<"M", "i", "c", "a", "h">>
      [] self = "Nahum" -> <<"N", "a", "h", "u", "m">>
      [] self = "Habakkuk" -> <<"H", "a", "b", "a", "k", "k", "u", "k">>
      [] self = "Zephaniah" -> <<"Z", "e", "p", "h", "a", "n", "i", "a", "h">>
      [] self = "Haggai" -> <<"H", "a", "g", "g", "a", "i">>
      [] self = "Zechariah" -> <<"Z", "e", "c", "h", "a", "r", "i", "a", "h">>
      [] self = "Malachi" -> <<"M", "a", "l", "a", "c", "h", "i">>
      [] self = "Matthew" -> <<"M", "a", "t", "t", "h", "e", "w">>
      [] self = "Mark" -> <<"M", "a", "r", "k">>
      [] self = "Luke" -> <<"L", "u", "k", "e">>
      [] self = "John" -> <<"J", "o", "h", "n">>
      [] self = "Acts" -> <<"A", "c", "t", "s">>
      [] self = "Romans" -> <<"R", "o", "m", "a", "n", "s">>
      [] self = "Corinthians1" -> <<"1", " ", "C", "o", "r", "i", "n", "t", "h", "i", "a", "n", "s">>
      [] self = "Corinthians2" -> <<"2", " ", "C", "o", "r", "i", "n", "t", "h", "i", "a", "n", "s">>
      [] self = "Galatians" -> <<"G", "a", "l", "a", "t", "i", "a", "n", "s">>
      [] self = "Ephesians" -> <<"E", "p", "h", "e", "s", "i", "a", "n", "s">>
      [] self = "Philippians" -> <<"P", "h", "i", "l", "i", "p", "p", "i", "a", "n", "s">>
      [] self = "Colossians" -> <<"C", "o", "l", "o", "s", "s", "i", "a", "n", "s">>
      [] self = "Thessalonians1" -> <<"1", " ", "T", "h", "e", "s", "s", "a", "l", "o", "n", "i", "a", "n", "s">>
      [] self = "Thessalonians2" -> <<"2", " ", "T", "h", "e", "s", "s", "a", "l", "o", "n", "i", "a", "n", "s">>
      [] self = "Timothy1" -> <<"1", " ", "T", "i", "m", "o", "t", "h", "y">>
      [] self = "Timothy2" -> <<"2", " ", "T", "i", "m", "o", "t", "h", "y">>
      [] self = "Titus" -> <<"T", "i", "t", "u", "s">>
      [] self = "Philemon" -> <<"P", "h", "i", "l", "e", "m", "o", "n">>
      [] self = "Hebrews" -> <<"H", "e", "b", "r", "e", "w", "s">>
      [] self = "James" -> <<"J", "a", "m", "e", "s">>
      [] self = "Peter1" -> <<"1", " ", "P", "e", "t", "e", "r">>
      [] self = "Peter2" -> <<"2", " ", "P", "e", "t", "e", "r">>
      [] self = "John1" -> <<"1", " ", "J", "o", "h", "n">>
      [] self = "John2" -> <<"2", " ", "J", "o", "h", "n">>
      [] self = "John3" -> <<"3", " ", "J", "o", "h", "n">>
      [] self = "Jude" -> <<"J", "u", "d", "e">>
      [] self = "Revelation" -> <<"R", "e", "v", "e", "l", "a", "t", "i", "o", "n">>


\* book as u8.
Book_as_u8(book) == CHOOSE u \in DOMAIN Books : Books[u] = book

\* The arms of the match of Book::from_u8, in source order.
from_u8_arms ==
    <<<<1, "Genesis">>, <<2, "Exodus">>, <<3, "Leviticus">>,
      <<4, "Numbers">>, <<5, "Deuteronomy">>, <<6, "Joshua">>,
      <<7, "Judges">>, <<8, "Ruth">>, <<9, "Samuel1">>,
      <<10, "Samuel2">>, <<11, "Kings1">>, <<12, "Kings2">>,
      <<13, "Chronicles1">>, <<14, "Chronicles2">>, <<15, "Ezra">>,
      <<16, "Nehemiah">>, <<17, "Esther">>, <<18, "Job">>,
      <<19, "Psalms">>, <<20, "Proverbs">>, <<21, "Ecclesiastes">>,
      <<22, "SongofSongs">>, <<23, "Isaiah">>, <<24, "Jeremiah">>,
      <<25, "Lamentations">>, <<26, "Ezekiel">>, <<27, "Daniel">>,
      <<28, "Hosea">>, <<29, "Joel">>, <<30, "Amos">>,
      <<31, "Obadiah">>, <<32, "Jonah">>, <<33, "Micah">>,
      <<34, "Nahum">>, <<35, "Habakkuk">>, <<36, "Zephaniah">>,
      <<37, "Haggai">>, <<38, "Zechariah">>, <<39, "Malachi">>,
      <<40, "Matthew">>, <<41, "Mark">>, <<42, "Luke">>,
      <<43, "John">>, <<44, "Acts">>, <<45, "Romans">>,
      <<46, "Corinthians1">>, <<47, "Corinthians2">>, <<48, "Galatians">>,
      <<49, "Ephesians">>, <<50, "Philippians">>, <<51, "Colossians">>,
      <<52, "Thessalonians1">>, <<53, "Thessalonians2">>, <<54, "Timothy1">>,
      <<55, "Timothy2">>, <<56, "Titus">>, <<57, "Philemon">>,
      <<58, "Hebrews">>, <<59, "James">>, <<60, "Peter1">>,
      <<61, "Peter2">>, <<62, "John1">>, <<63, "John2">>,
      <<64, "John3">>, <<65, "Jude">>, <<66, "Revelation">>>>

\* Book::from_u8 as it would be with the arms of 39 and 40 exchanged.
Book_from_u8_Exchanged(u) ==
    LET v == IF u = 39 THEN 40 ELSE IF u = 40 THEN 39 ELSE u
    IN  IF \E i \in DOMAIN from_u8_arms : from_u8_arms[i][1] = v
        THEN Some(from_u8_arms[CHOOSE i \in DOMAIN from_u8_arms : from_u8_arms[i][1] = v][2])
        ELSE None

\* Book::from_u8: Some(book) from the first arm of the number, or None for
\* the panic "invalid conversion" of the arm of every other number.
Book_from_u8(u) ==
    IF \E i \in DOMAIN from_u8_arms : from_u8_arms[i][1] = u
    THEN Some(from_u8_arms[CHOOSE i \in DOMAIN from_u8_arms :
                               /\ from_u8_arms[i][1] = u
                               /\ \A j \in 1..(i - 1) : from_u8_arms[j][1] # u][2])
    ELSE None

\* The truncation limit of ParseBookError's text.
BookErrorLimit == 20

\* A Result<Book, ParseBookError>, or the panic of the call.
BookOk(book) == [tag |-> "Ok", book |-> book, text |-> <<>>]

BookPanic == [tag |-> "Panic", book |-> "", text |-> <<>>]

\* ParseBookError::new.
ParseBookError(text) ==
    LET abbrev == AbbrevStr_get(text, BookErrorLimit)
    IN  IF abbrev = None THEN BookPanic
        ELSE [tag |-> "Err", book |-> "", text |-> abbrev[1]]

\* char::is_alphabetic and char::is_whitespace, asked of the first byte of
\* a character: the ASCII letters and the two-byte letter; the space.
is_alphabetic(b) == b \in Range(Lower) \cup Range(Upper) \cup {"xC3"}

is_whitespace(b) == b = " "

to_ascii_uppercase_byte(b) ==
    IF b \in Range(Lower) THEN Upper[CHOOSE i \in DOMAIN Lower : Lower[i] = b] ELSE b

\* str::to_ascii_uppercase.
to_ascii_uppercase(s) == [i \in DOMAIN s |-> to_ascii_uppercase_byte(s[i])]

\* str::trim.
RECURSIVE trim_start(_)
trim_start(s) ==
    IF s # <<>> /\ is_whitespace(Head(s)) THEN trim_start(Tail(s)) ELSE s

RECURSIVE trim_end(_)
trim_end(s) ==
    IF s # <<>> /\ is_whitespace(s[Len(s)]) THEN trim_end(SubSeq(s, 1, Len(s) - 1)) ELSE s

trim(s) == trim_end(trim_start(s))

\* first_numeric_nonnumeric_transition: [panic |-> FALSE, idx |-> Option of
\* the 0-based byte index], or panic |-> TRUE when s[1..] cuts a character.
first_numeric_nonnumeric_transition(s) ==
    IF s = <<>> THEN [panic |-> FALSE, idx |-> None]
    ELSE IF ~is_char_boundary(s, 1) THEN [panic |-> TRUE, idx |-> None]
    ELSE LET alphabetic == is_alphabetic(s[1])
             Hit(j) == /\ IsCharBoundaryByte(s[j])
                       /\ ~is_whitespace(s[j])
                       /\ is_alphabetic(s[j]) # alphabetic
             hits == {j \in 2..Len(s) : Hit(j)}
         IN  IF hits = {} THEN [panic |-> FALSE, idx |-> None]
             ELSE [panic |-> FALSE,
                   idx |-> Some((CHOOSE j \in hits : \A k \in hits : j <= k) - 1)]

\* characterize as it would be if it took the name to be on the left always.
characterize_NameFirst(left, right) == <<trim(left), trim(right)>>

\* characterize, the helper of book_name_in_parts: <<name, numeric>>.
characterize(left, right) ==
    LET l == trim(left)
        r == trim(right)
    IN  IF \E i \in DOMAIN l : is_ascii_digit(l[i]) THEN <<r, l>> ELSE <<l, r>>

\* book_name_in_parts as it would be if the number were parsed wide and cast
\* to u8 (wrapping) instead of parsed as u8.
book_name_in_parts_Wrapping(s) ==
    LET t == first_numeric_nonnumeric_transition(s)
    IN  IF t.panic THEN [tag |-> "Panic", name |-> <<>>, number |-> None]
        ELSE IF t.idx = None THEN [tag |-> "Ok", name |-> s, number |-> None]
        ELSE LET idx   == t.idx[1]
                 parts == characterize(SubSeq(s, 1, idx), SubSeq(s, idx + 1, Len(s)))
                 n     == parse_unsigned(parts[2], U16Max)
             IN  IF ~n.ok \/ n.val % (U8Max + 1) = 0
                 THEN [tag |-> "Err", name |-> <<>>, number |-> None]
                 ELSE [tag |-> "Ok", name |-> parts[1],
                       number |-> Some(n.val % (U8Max + 1))]

\* book_name_in_parts: [tag |-> "Ok", name, number] with number an Option of
\* the NonZeroU8, [tag |-> "Err"] for a ParseBookError of s, or "Panic".
book_name_in_parts(s) ==
    LET t == first_numeric_nonnumeric_transition(s)
    IN  IF t.panic THEN [tag |-> "Panic", name |-> <<>>, number |-> None]
        ELSE IF t.idx = None THEN [tag |-> "Ok", name |-> s, number |-> None]
        ELSE LET idx   == t.idx[1]
                 parts == characterize(SubSeq(s, 1, idx), SubSeq(s, idx + 1, Len(s)))
                 n     == parse_unsigned(parts[2], U8Max)
             IN  IF ~n.ok \/ n.val = 0
                 THEN [tag |-> "Err", name |-> <<>>, number |-> None]
                 ELSE [tag |-> "Ok", name |-> parts[1], number |-> Some(n.val)]

\* The match of Book::from_str on the upper-cased name and the number.
\* err is the ParseBookError the arms of no book return.
MatchBook(name, number, err) ==
    CASE name = <<"G", "E", "N", "E", "S", "I", "S">> -> BookOk("Genesis")
      [] name = <<"E", "X", "O", "D", "U", "S">> -> BookOk("Exodus")
      [] name = <<"L", "E", "V", "I", "T", "I", "C", "U", "S">> -> BookOk("Leviticus")
      [] name = <<"N", "U", "M", "B", "E", "R", "S">> -> BookOk("Numbers")
      [] name = <<"D", "E", "U", "T", "E", "R", "O", "N", "O", "M", "Y">> -> BookOk("Deuteronomy")
      [] name = <<"J", "O", "S", "H", "U", "A">> -> BookOk("Joshua")
      [] name = <<"J", "U", "D", "G", "E", "S">> -> BookOk("Judges")
      [] name = <<"R", "U", "T", "H">> -> BookOk("Ruth")
      [] name = <<"S", "A", "M", "U", "E", "L">> ->
             IF number = Some(1) THEN BookOk("Samuel1")
             ELSE IF number = Some(2) THEN BookOk("Samuel2")
             ELSE err
      [] name = <<"K", "I", "N", "G", "S">> ->
             IF number = Some(1) THEN BookOk("Kings1")
             ELSE IF number = Some(2) THEN BookOk("Kings2")
             ELSE err
      [] name = <<"C", "H", "R", "O", "N", "I", "C", "L", "E", "S">> ->
             IF number = Some(1) THEN BookOk("Chronicles1")
             ELSE IF number = Some(2) THEN BookOk("Chronicles2")
             ELSE err
      [] name = <<"E", "Z", "R", "A">> -> BookOk("Ezra")
      [] name = <<"N", "E", "H", "E", "M", "I", "A", "H">> -> BookOk("Nehemiah")
      [] name = <<"E", "S", "T", "H", "E", "R">> -> BookOk("Esther")
      [] name = <<"J", "O", "B">> -> BookOk("Job")
      [] name = <<"P", "S", "A", "L", "M", "S">> -> BookOk("Psalms")
      [] name = <<"P", "R", "O", "V", "E", "R", "B", "S">> -> BookOk("Proverbs")
      [] name = <<"E", "C", "C", "L", "E", "S", "I", "A", "S", "T", "E", "S">> -> BookOk("Ecclesiastes")
      [] name = <<"S", "O", "N", "G", "S">> \/ name = <<"S", "O", "N", "G", " ", "O", "F", " ", "S", "O", "N", "G", "S">> -> BookOk("SongofSongs")
      [] name = <<"I", "S", "A", "I", "A", "H">> -> BookOk("Isaiah")
      [] name = <<"J", "E", "R", "E", "M", "I", "A", "H">> -> BookOk("Jeremiah")
      [] name = <<"L", "A", "M", "E", "N", "T", "A", "T", "I", "O", "N", "S">> -> BookOk("Lamentations")
      [] name = <<"E", "Z", "E", "K", "I", "E", "L">> -> BookOk("Ezekiel")
      [] name = <<"D", "A", "N", "I", "E", "L">> -> BookOk("Daniel")
      [] name = <<"H", "O", "S", "E", "A">> -> BookOk("Hosea")
      [] name = <<"J", "O", "E", "L">> -> BookOk("Joel")
      [] name = <<"A", "M", "O", "S">> -> BookOk("Amos")
      [] name = <<"O", "B", "A", "D", "I", "A", "H">> -> BookOk("Obadiah")
      [] name = <<"J", "O", "N", "A", "H">> -> BookOk("Jonah")
      [] name = <<"M", "I", "C", "A", "H">> -> BookOk("Micah")
      [] name = <<"N", "A", "H", "U", "M">> -> BookOk("Nahum")
      [] name = <<"H", "A", "B", "A", "K", "K", "U", "K">> -> BookOk("Habakkuk")
      [] name = <<"Z", "E", "P", "H", "A", "N", "I", "A", "H">> -> BookOk("Zephaniah")
      [] name = <<"H", "A", "G", "G", "A", "I">> -> BookOk("Haggai")
      [] name = <<"Z", "E", "C", "H", "A", "R", "I", "A", "H">> -> BookOk("Zechariah")
      [] name = <<"M", "A", "L", "A", "C", "H", "I">> -> BookOk("Malachi")
      [] name = <<"M", "A", "T", "T", "H", "E", "W">> -> BookOk("Matthew")
      [] name = <<"M", "A", "R", "K">> -> BookOk("Mark")
      [] name = <<"L", "U", "K", "E">> -> BookOk("Luke")
      [] name = <<"J", "O", "H", "N">> ->
             IF number = None THEN BookOk("John")
             ELSE IF number = Some(1) THEN BookOk("John1")
             ELSE IF number = Some(2) THEN BookOk("John2")
             ELSE IF number = Some(3) THEN BookOk("John3")
             ELSE err
      [] name = <<"A", "C", "T", "S">> -> BookOk("Acts")
      [] name = <<"R", "O", "M", "A", "N", "S">> -> BookOk("Romans")
      [] name = <<"C", "O", "R", "I", "N", "T", "H", "I", "A", "N", "S">> ->
             IF number = Some(1) THEN BookOk("Corinthians1")
             ELSE IF number = Some(2) THEN BookOk("Corinthians2")
             ELSE err
      [] name = <<"G", "A", "L", "A", "T", "I", "A", "N", "S">> -> BookOk("Galatians")
      [] name = <<"E", "P", "H", "E", "S", "I", "A", "N", "S">> -> BookOk("Ephesians")
      [] name = <<"P", "H", "I", "L", "I", "P", "P", "I", "A", "N", "S">> -> BookOk("Philippians")
      [] name = <<"C", "O", "L", "O", "S", "S", "I", "A", "N", "S">> -> BookOk("Colossians")
      [] name = <<"T", "H", "E", "S", "S", "A", "L", "O", "N", "I", "A", "N", "S">> ->
             IF number = Some(1) THEN BookOk("Thessalonians1")
             ELSE IF number = Some(2) THEN BookOk("Thessalonians2")
             ELSE err
      [] name = <<"T", "I", "M", "O", "T", "H", "Y">> ->
             IF number = Some(1) THEN BookOk("Timothy1")
             ELSE IF number = Some(2) THEN BookOk("Timothy2")
             ELSE err
      [] name = <<"T", "I", "T", "U", "S">> -> BookOk("Titus")
      [] name = <<"P", "H", "I", "L", "E", "M", "O", "N">> -> BookOk("Philemon")
      [] name = <<"H", "E", "B", "R", "E", "W", "S">> -> BookOk("Hebrews")
      [] name = <<"J", "A", "M", "E", "S">> -> BookOk("James")
      [] name = <<"P", "E", "T", "E", "R">> ->
             IF number = Some(1) THEN BookOk("Peter1")
             ELSE IF number = Some(2) THEN BookOk("Peter2")
             ELSE err
      [] name = <<"J", "U", "D", "E">> -> BookOk("Jude")
      [] name = <<"R", "E", "V", "E", "L", "A", "T", "I", "O", "N">> -> BookOk("Revelation")
      [] OTHER -> err

\* Book::from_str as it would be if it matched the name as typed.
Book_from_str_CaseSensitive(s) ==
    LET parts == book_name_in_parts(s)
    IN  IF parts.tag = "Panic" THEN BookPanic
        ELSE IF parts.tag = "Err" THEN ParseBookError(s)
        ELSE MatchBook(parts.name, parts.number, ParseBookError(s))

\* Book::from_str.
Book_from_str(s) ==
    LET parts == book_name_in_parts(s)
    IN  IF parts.tag = "Panic" THEN BookPanic
        ELSE IF parts.tag = "Err" THEN ParseBookError(s)
        ELSE MatchBook(to_ascii_uppercase(parts.name), parts.number, ParseBookError(s))

----------------------------------------------------------------------------
(* bible-cli/src/main.rs: the corpus index *)

\* str::lines: the text split at "\n", a final empty piece dropped, and one
\* trailing "\r" dropped from each line.  "\n" and "\r" are the bytes "LF"
\* and "CR".
StripCarriageReturn(line) ==
    IF line # <<>> /\ line[Len(line)] = "CR" THEN SubSeq(line, 1, Len(line) - 1) ELSE line

lines(text) ==
    LET feeds    == {i \in DOMAIN text : text[i] = "LF"}
        \* the ends of the pieces: each line feed, and the end of a text
        \* that does not end in one
        ends     == feeds \cup (IF text # <<>> /\ text[Len(text)] # "LF"
                                THEN {Len(text) + 1} ELSE {})
        EndOf(k) == CHOOSE e \in ends : Cardinality({f \in ends : f < e}) = k - 1
        StartOf(k) == IF k = 1 THEN 1 ELSE EndOf(k - 1) + 1
    IN  [k \in 1..Cardinality(ends) |->
            StripCarriageReturn(SubSeq(text, StartOf(k), EndOf(k) - 1))]

\* &s[from..to] with 0-based byte offsets: Some(slice), or None for the
\* panic of a range out of bounds or off a character boundary.
Slice(s, from, to) ==
    IF from <= to /\ to <= Len(s) /\ is_char_boundary(s, from) /\ is_char_boundary(s, to)
    THEN Some(SubSeq(s, from + 1, to))
    ELSE None

\* IndexMap::get.
IndexMap_get(map, key) ==
    IF \E i \in DOMAIN map : map[i].key = key
    THEN Some(map[CHOOSE i \in DOMAIN map : map[i].key = key].value)
    ELSE None

\* IndexMap::entry(key).or_default(): an absent key is appended with an
\* empty value, a present key is left where it is.
IndexMap_or_default(map, key) ==
    IF \E i \in DOMAIN map : map[i].key = key THEN map
    ELSE Append(map, [key |-> key, value |-> <<>>])

\* An insert that removes a present key and appends it anew.
IndexMap_insert_MoveToEnd(map, key, value) ==
    Append(SelectSeq(map, LAMBDA e : e.key # key), [key |-> key, value |-> value])

\* IndexMap::insert: a present key keeps its place and takes the new value,
\* an absent key is appended.
IndexMap_insert(map, key, value) ==
    IF \E i \in DOMAIN map : map[i].key = key
    THEN [i \in DOMAIN map |->
             IF map[i].key = key THEN [key |-> key, value |-> value] ELSE map[i]]
    ELSE Append(map, [key |-> key, value |-> value])

\* One record of the corpus as build_index reads it: [panic |-> FALSE, book,
\* chapter, verse, text], or panic |-> TRUE for an unwrap of a failed parse,
\* a slice out of the line, or Book::from_u8 of no book.
ParseRecord(record) ==
    LET bad     == [panic |-> TRUE, book |-> "", chapter |-> 0, verse |-> 0, text |-> <<>>]
        b       == Slice(record, 0, 2)
        c       == Slice(record, 2, 5)
        v       == Slice(record, 5, 8)
        t       == Slice(record, 9, Len(record))
    IN  IF b = None THEN bad
        ELSE LET bn == parse_unsigned(b[1], U8Max)
             IN  IF ~bn.ok \/ Book_from_u8(bn.val) = None THEN bad
                 ELSE IF c = None THEN bad
                 ELSE LET cn == parse_unsigned(c[1], U16Max)
                      IN  IF ~cn.ok THEN bad
                          ELSE IF v = None THEN bad
                          ELSE LET vn == parse_unsigned(v[1], U16Max)
                               IN  IF ~vn.ok \/ t = None THEN bad
                                   ELSE [panic |-> FALSE, book |-> Book_from_u8(bn.val)[1],
                                         chapter |-> cn.val, verse |-> vn.val, text |-> t[1]]

\* The loop body as it would be with .entry(verse).or_insert(text): the
\* first text of an address is kept.
InsertRecord_KeepFirst(idx, book, chapter, verse, text) ==
    LET withBook    == IndexMap_or_default(idx, book)
        bookIndex   == IndexMap_or_default(IndexMap_get(withBook, book)[1], chapter)
        old         == IndexMap_get(bookIndex, chapter)[1]
        chapterIndex == IF IndexMap_get(old, verse) # None THEN old
                        ELSE IndexMap_insert(old, verse, text)
    IN  IndexMap_insert(withBook, book, IndexMap_insert(bookIndex, chapter, chapterIndex))

\* The body of build_index's loop after the parse:
\* index.entry(book).or_default().entry(chapter).or_default().insert(verse, text).
InsertRecord(idx, book, chapter, verse, text) ==
    LET withBook    == IndexMap_or_default(idx, book)
        bookIndex   == IndexMap_or_default(IndexMap_get(withBook, book)[1], chapter)
        chapterIndex == IndexMap_insert(IndexMap_get(bookIndex, chapter)[1], verse, text)
    IN  IndexMap_insert(withBook, book, IndexMap_insert(bookIndex, chapter, chapterIndex))

\* A Result<(), Error> of run with what it printed: the rows
\* [chapter, verse, text] in print order.
Printed(rows) ==
    [tag |-> "Ok", entity |-> "", book |-> "", location |-> None, rows |-> rows]

NotFound(entity, book, location) ==
    [tag |-> "NotFound", entity |-> entity, book |-> book, location |-> location,
     rows |-> <<>>]

\* print_chapter: the verses of a chapter index in iteration order.
print_chapter(chapter, chapterIndex) ==
    [i \in DOMAIN chapterIndex |->
        [chapter |-> chapter, verse |-> chapterIndex[i].key, text |-> chapterIndex[i].value]]

\* print_book: the chapters of a book index in iteration order.
RECURSIVE print_book(_)
print_book(bookIndex) ==
    IF bookIndex = <<>> THEN <<>>
    ELSE print_chapter(Head(bookIndex).key, Head(bookIndex).value)
             \o print_book(Tail(bookIndex))

\* load_and_print as it would be if a missing chapter were reported as a
\* missing verse.
load_and_print_VerseForChapter(book, location, bookIndex) ==
    LET chapterIndex == IndexMap_get(bookIndex, location.chapter)
    IN  IF chapterIndex = None THEN NotFound("Verse", book, Some(location))
        ELSE IF location.verse # None
             THEN LET verse == IndexMap_get(chapterIndex[1], location.verse[1])
                  IN  IF verse = None THEN NotFound("Verse", book, Some(location))
                      ELSE Printed(<<[chapter |-> location.chapter,
                                      verse |-> location.verse[1], text |-> verse[1]]>>)
             ELSE Printed(print_chapter(location.chapter, chapterIndex[1]))

\* load_and_print.
load_and_print(book, location, bookIndex) ==
    LET chapterIndex == IndexMap_get(bookIndex, location.chapter)
    IN  IF chapterIndex = None THEN NotFound("Chapter", book, Some(location))
        ELSE IF location.verse # None
             THEN LET verse == IndexMap_get(chapterIndex[1], location.verse[1])
                  IN  IF verse = None THEN NotFound("Verse", book, Some(location))
                      ELSE Printed(<<[chapter |-> location.chapter,
                                      verse |-> location.verse[1], text |-> verse[1]]>>)
             ELSE Printed(print_chapter(location.chapter, chapterIndex[1]))

\* run, after build_index: the lookup of the book and the dispatch on the
\* location.
run_lookup(idx, book, location) ==
    LET bookIndex == IndexMap_get(idx, book)
    IN  IF bookIndex = None THEN NotFound("Book", book, None)
        ELSE IF location # None THEN load_and_print(book, location[1], bookIndex[1])
        ELSE Printed(print_book(bookIndex[1]))

----------------------------------------------------------------------------
(* bible-cli/src/main.rs: the approximate search *)

\* get_distance: the number of places where the zipped slices differ.
get_distance(a, b) ==
    Cardinality({i \in 1..(IF Len(a) < Len(b) THEN Len(a) ELSE Len(b)) : a[i] # b[i]})

Min(S) == CHOOSE x \in S : \A y \in S : x <= y

\* edit_distance without the filter on the first byte of a window.
edit_distance_AnyWindow(query, text) ==
    IF Len(query) > Len(text) THEN [panic |-> FALSE, distance |-> None]
    ELSE IF Len(query) = 0 THEN [panic |-> TRUE, distance |-> None]
    ELSE LET starts    == 1..(Len(text) - Len(query) + 1)
             window(i) == SubSeq(text, i, i + Len(query) - 1)
             distances == {get_distance(query, window(i)) : i \in starts}
         IN  [panic |-> FALSE, distance |-> Some(Min(distances))]

\* edit_distance: [panic |-> FALSE, distance |-> Option], or panic |-> TRUE
\* for slice::windows(0).
edit_distance(query, text) ==
    IF Len(query) > Len(text) THEN [panic |-> FALSE, distance |-> None]
    ELSE IF Len(query) = 0 THEN [panic |-> TRUE, distance |-> None]
    ELSE LET starts    == 1..(Len(text) - Len(query) + 1)
             window(i) == SubSeq(text, i, i + Len(query) - 1)
             distances == {get_distance(query, window(i)) :
                              i \in {j \in starts : text[j] = query[1]}}
         IN  IF distances = {} THEN [panic |-> FALSE, distance |-> None]
             ELSE [panic |-> FALSE, distance |-> Some(Min(distances))]

\* The closure without the upper-casing of the text.
ScoreLine_CaseSensitive(query, line) ==
    LET text == Slice(line, 9, Len(line))
    IN  IF text = None THEN [panic |-> TRUE, distance |-> None]
        ELSE edit_distance(query, text[1])

\* The closure of search's filter_map on one line: the distance of the query
\* to the upper-cased text after the header, or the panic of line[9..].
ScoreLine(query, line) ==
    LET text == Slice(line, 9, Len(line))
    IN  IF text = None THEN [panic |-> TRUE, distance |-> None]
        ELSE edit_distance(query, to_ascii_uppercase(text[1]))

\* slice::sort_by_key, a stable sort: insertion after the elements whose key
\* is not greater.
RECURSIVE InsertByKey(_, _)
InsertByKey(sorted, x) ==
    IF sorted = <<>> THEN <<x>>
    ELSE IF x.distance < Head(sorted).distance THEN <<x>> \o sorted
    ELSE <<Head(sorted)>> \o InsertByKey(Tail(sorted), x)

RECURSIVE sort_by_key(_)
sort_by_key(s) ==
    IF s = <<>> THEN <<>>
    ELSE InsertByKey(sort_by_key(SubSeq(s, 1, Len(s) - 1)), s[Len(s)])

\* Iterator::take.
take(s, n) == SubSeq(s, 1, IF Len(s) < n THEN Len(s) ELSE n)

\* The number of candidates search prints.
SearchLimit == 10

\* The lines of the corpus that score, with their distance, in corpus order.
RECURSIVE ScoredLines(_, _)
ScoredLines(query, ls) ==
    IF ls = <<>> THEN <<>>
    ELSE LET score == ScoreLine(query, Head(ls))
             rest  == ScoredLines(query, Tail(ls))
         IN  IF score.distance = None THEN rest
             ELSE <<[distance |-> score.distance[1], line |-> Head(ls)]>> \o rest

\* search as it would be if it cut the list to the limit before sorting it.
search_TakeBeforeSort(query, text) ==
    LET q       == to_ascii_uppercase(query)
        ls      == lines(text)
        printed == sort_by_key(take(ScoredLines(q, ls), SearchLimit))
    IN  IF \/ \E i \in DOMAIN ls : ScoreLine(q, ls[i]).panic
           \/ \E i \in DOMAIN printed : ParseRecord(printed[i].line).panic
        THEN [panic |-> TRUE, lines |-> <<>>]
        ELSE [panic |-> FALSE, lines |-> [i \in DOMAIN printed |-> printed[i].line]]

\* search: [panic |-> FALSE, lines |-> the candidates printed, in order], or
\* panic |-> TRUE when scoring a line or printing a candidate panics.
search(query, text) ==
    LET q       == to_ascii_uppercase(query)
        ls      == lines(text)
        sorted  == sort_by_key(ScoredLines(q, ls))
        printed == take(sorted, SearchLimit)
    IN  IF \/ \E i \in DOMAIN ls : ScoreLine(q, ls[i]).panic
           \/ \E i \in DOMAIN printed : ParseRecord(printed[i].line).panic
        THEN [panic |-> TRUE, lines |-> <<>>]
        ELSE [panic |-> FALSE, lines |-> [i \in DOMAIN printed |-> printed[i].line]]

----------------------------------------------------------------------------
(* main.rs, text.rs: the tantivy index and search_by_book_and_location *)

\* <Translation as Display>::fmt.
Translation_fmt(self) ==
    CASE self = "Kjv" -> <<"K", "J", "V">>
      [] self = "Asv" -> <<"A", "S", "V">>

\* str::split('/'): the pieces between the slashes, empty pieces included.
split_slash(s) ==
    LET ends       == {i \in DOMAIN s : s[i] = "/"} \cup {Len(s) + 1}
        EndOf(k)   == CHOOSE e \in ends : Cardinality({f \in ends : f < e}) = k - 1
        StartOf(k) == IF k = 1 THEN 1 ELSE EndOf(k - 1) + 1
    IN  [k \in 1..Cardinality(ends) |-> SubSeq(s, StartOf(k), EndOf(k) - 1)]

\* Facet::from(&str) on a path that starts with a slash: the facet is the
\* sequence of the path's segments.
Facet_from(path) == split_slash(Tail(path))

\* <Facet as Display>::fmt: every segment after a slash.
RECURSIVE Facet_to_string(_)
Facet_to_string(facet) ==
    IF facet = <<>> THEN <<>>
    ELSE <<"/">> \o Head(facet) \o Facet_to_string(Tail(facet))

\* Translation::facet, and the translation facet of write_index and of the
\* query: Facet::from(&format!("/{translation}")).
Translation_facet(self) == Facet_from(<<"/">> \o Translation_fmt(self))

\* Location::from_id with the chapter and the verse taken from each other's
\* digits.
Location_from_id_Swapped(id) ==
    LET book == Book_from_u8((id \div 1000000) % (U8Max + 1))
    IN  IF book = None THEN None
        ELSE Some([book    |-> book[1],
                   chapter |-> (id % 1000) % (U16Max + 1),
                   verse   |-> ((id % 1000000) \div 1000) % (U16Max + 1)])

\* Location::from_id: None for the panic of Book::from_u8 on a number of no
\* book.
Location_from_id(id) ==
    LET book == Book_from_u8((id \div 1000000) % (U8Max + 1))
    IN  IF book = None THEN None
        ELSE Some([book    |-> book[1],
                   chapter |-> ((id % 1000000) \div 1000) % (U16Max + 1),
                   verse   |-> (id % 1000) % (U16Max + 1)])

\* The closure of parse_verses_with_id's filter_map on one line: the slice
\* line[..8] panics on a short line, a header that does not parse is
\* skipped, and line[9..] panics on a line that ends with its header.  Eight
\* bytes cannot overflow a u64.
parse_verse_with_id(line) ==
    LET header == Slice(line, 0, 8)
    IN  IF header = None THEN [tag |-> "Panic", id |-> 0, text |-> <<>>]
        ELSE LET id == parse_unsigned(header[1], 99999999)
             IN  IF ~id.ok THEN [tag |-> "Skip", id |-> 0, text |-> <<>>]
                 ELSE LET text == Slice(line, 9, Len(line))
                      IN  IF text = None THEN [tag |-> "Panic", id |-> 0, text |-> <<>>]
                          ELSE [tag |-> "Item", id |-> id.val, text |-> text[1]]

\* The body of write_index's loop on one item: the document it adds, or the
\* panic of Location::from_id.
DocumentOf(translation, item) ==
    LET location == Location_from_id(item.id)
    IN  IF location = None THEN None
        ELSE Some([translation |-> Translation_facet(translation),
                   location    |-> Facet_from(<<"/">> \o FormatUnsigned(Book_as_u8(location[1].book))
                                              \o <<"/">> \o FormatUnsigned(location[1].chapter)
                                              \o <<"/">> \o FormatUnsigned(location[1].verse)),
                   content     |-> item.text])

\* write_index on the corpus text of a translation and the committed
\* documents of the index: the documents after the commit.  A panic on any
\* line comes before the commit, so nothing of the translation is committed.
write_index(translation, text, committed) ==
    LET ls       == lines(text)
        parsed   == [i \in DOMAIN ls |-> parse_verse_with_id(ls[i])]
        added    == [i \in DOMAIN ls |->
                        IF parsed[i].tag = "Item" THEN DocumentOf(translation, parsed[i])
                        ELSE None]
        panics   == \E i \in DOMAIN ls :
                        \/ parsed[i].tag = "Panic"
                        \/ parsed[i].tag = "Item" /\ added[i] = None
        kept     == SelectSeq(added, LAMBDA d : d # None)
    IN  IF panics THEN [panic |-> TRUE, docs |-> committed]
        ELSE [panic |-> FALSE, docs |-> committed \o [i \in DOMAIN kept |-> kept[i][1]]]

\* str::trim_start_matches('/').
RECURSIVE trim_start_slashes(_)
trim_start_slashes(s) ==
    IF s # <<>> /\ Head(s) = "/" THEN trim_start_slashes(Tail(s)) ELSE s

\* Text::from_document: Some(text), or None for the panic of an unwrap on
\* a missing segment, a segment that does not parse, or a number of no book.
Text_from_document(document) ==
    LET location == Facet_to_string(document.location)
        segments == split_slash(trim_start_slashes(location))
    IN  IF Len(segments) < 3 THEN None
        ELSE LET ordinal == parse_unsigned(segments[1], U8Max)
                 chapter == parse_unsigned(segments[2], U16Max)
                 verse   == parse_unsigned(segments[3], U16Max)
             IN  IF ~ordinal.ok \/ Book_from_u8(ordinal.val) = None
                    \/ ~chapter.ok \/ ~verse.ok
                 THEN None
                 ELSE Some([book    |-> Book_from_u8(ordinal.val)[1],
                            chapter |-> chapter.val,
                            verse   |-> verse.val,
                            content |-> document.content])

\* <Text as Ord>::cmp: by book (the derived order of the enum, that of the
\* discriminants), then chapter, then verse.
Text_cmp(self, other) ==
    IF Book_as_u8(self.book) # Book_as_u8(other.book)
    THEN (IF Book_as_u8(self.book) < Book_as_u8(other.book) THEN "Less" ELSE "Greater")
    ELSE IF self.chapter # other.chapter
    THEN (IF self.chapter < other.chapter THEN "Less" ELSE "Greater")
    ELSE IF self.verse # other.verse
    THEN (IF self.verse < other.verse THEN "Less" ELSE "Greater")
    ELSE "Equal"

\* slice::sort on Vec<Text>: stable, equal texts keep their order.
RECURSIVE InsertText(_, _)
InsertText(sorted, x) ==
    IF sorted = <<>> THEN <<x>>
    ELSE IF Text_cmp(x, Head(sorted)) = "Less" THEN <<x>> \o sorted
    ELSE <<Head(sorted)>> \o InsertText(Tail(sorted), x)

RECURSIVE sort(_)
sort(s) ==
    IF s = <<>> THEN <<>>
    ELSE InsertText(sort(SubSeq(s, 1, Len(s) - 1)), s[Len(s)])

\* The path search_by_book_and_location writes into buf: the book's number,
\* then the chapter if a location is given, never the verse.
LocationPath(book, location) ==
    <<"/">> \o FormatUnsigned(Book_as_u8(book))
            \o (IF location # None
                THEN <<"/">> \o FormatUnsigned(location[1].chapter)
                ELSE <<>>)

\* The facet search_by_book_and_location queries.
LocationFacet(book, location) == Facet_from(LocationPath(book, location))

\* A TermQuery on a facet field matches the documents filed under the
\* facet: those whose facet starts with the segments of the term.
TermQuery(term, facet) ==
    Len(term) <= Len(facet) /\ SubSeq(facet, 1, Len(term)) = term

\* BooleanQuery::intersection of the location and the translation query,
\* as the places of the matching documents in the index.
Matching(docs, book, location, translation) ==
    {i \in DOMAIN docs :
        /\ TermQuery(LocationFacet(book, location), docs[i].location)
        /\ TermQuery(Translation_facet(translation), docs[i].translation)}

\* The orders a collector may hand the documents of a set in.
Orders(S) ==
    {p \in [1..Cardinality(S) -> S] : \A i, j \in DOMAIN p : i # j => p[i] # p[j]}

\* The limit of the TopDocs collector.
TopDocsLimit == 10000

\* Vec::retain with Verse::contains, when the location has a verse.
RetainVerse(s, location) ==
    IF location # None /\ location[1].verse # None
    THEN SelectSeq(s, LAMBDA text : Verse_contains(location[1].verse[1], text.verse))
    ELSE s

\* The texts pushed for the documents of one search result, or the panic
\* of Text::from_document.
PushTexts(docs, hits) ==
    LET decoded == [i \in DOMAIN hits |-> Text_from_document(docs[hits[i]])]
    IN  IF \E i \in DOMAIN decoded : decoded[i] = None
        THEN [panic |-> TRUE, texts |-> <<>>]
        ELSE [panic |-> FALSE, texts |-> [i \in DOMAIN decoded |-> decoded[i][1]]]

\* search_by_book_and_location without its sort.
search_by_book_and_location_Unsorted(docs, book, location, translation) ==
    {LET pushed == PushTexts(docs, take(hits, TopDocsLimit))
     IN  IF pushed.panic THEN pushed
         ELSE [panic |-> FALSE, texts |-> RetainVerse(pushed.texts, location)] :
        hits \in Orders(Matching(docs, book, location, translation))}

\* search_by_book_and_location on the committed documents of the index:
\* the results it can return, one for each order the searcher can hand
\* the matching documents in.
search_by_book_and_location(docs, book, location, translation) ==
    {LET pushed == PushTexts(docs, take(hits, TopDocsLimit))
     IN  IF pushed.panic THEN pushed
         ELSE [panic |-> FALSE, texts |-> RetainVerse(sort(pushed.texts), location)] :
        hits \in Orders(Matching(docs, book, location, translation))}

----------------------------------------------------------------------------
(* search.rs: SplitWindows *)

\* A byte of a character the class \w has: a letter, a digit, the
\* underscore, a byte of the two-byte letter.
is_word_byte(b) ==
    b \in Range(Lower) \cup Range(Upper) \cup Range(Digits) \cup {"_", "xC3", "xA9"}

\* The 0-based offsets where the expression (^\w|\b\w) matches: a word
\* character at the start of the text or after a character that is not one.
WordStarts(text) ==
    {i \in 0..(Len(text) - 1) :
        /\ is_word_byte(text[i + 1])
        /\ IsCharBoundaryByte(text[i + 1])
        /\ (i = 0 \/ ~is_word_byte(text[i]))}

\* SplitWindows::windows with text.get(start..) in the place of
\* text.get(start..start + len): a window near the end is cut short.
SplitWindows_windows_CutShort(text, len) ==
    LET starts == WordStarts(text)
        Nth(k) == CHOOSE i \in starts : Cardinality({j \in starts : j < i}) = k - 1
    IN  [k \in 1..Cardinality(starts) |->
            SubSeq(text, Nth(k) + 1,
                   IF Nth(k) + len <= Len(text) THEN Nth(k) + len ELSE Len(text))]

\* SplitWindows::windows: for each match of the expression, from left to
\* right, text.get(start..start + len); a match whose range does not lie
\* in the text on character boundaries gives no window.
SplitWindows_windows(text, len) ==
    LET starts == {j \in WordStarts(text) : Slice(text, j, j + len) # None}
        Nth(k) == CHOOSE i \in starts : Cardinality({j \in starts : j < i}) = k - 1
    IN  [k \in 1..Cardinality(starts) |-> Slice(text, Nth(k), Nth(k) + len)[1]]
----------------------------------------------------------------------------
(* main.rs: format_texts *)

\* Text::chapter
Text_chapter(text) == [book |-> text.book, chapter |-> text.chapter]

\* The locator Reference::url reads from a Text (book, chapter, Some(verse))
\* or from a Chapter (book, chapter, None).
ReferenceLocator(item) ==
    [book    |-> item.book,
     chapter |-> item.chapter,
     verse   |-> IF "verse" \in DOMAIN item THEN Some(item.verse) ELSE None]

\* The rows of the table: the bold header of a chapter, a verse with its
\* content, a link made by Reference::url from a locator.
HeaderRow(chapter) == [row |-> "header", book |-> chapter.book, chapter |-> chapter.chapter]

VerseRow(text) == [row |-> "verse", verse |-> text.verse, content |-> text.content]

ReferenceRow(item) == [row |-> "reference", locator |-> ReferenceLocator(item)]

\* append_reference with a full verse link in both cases.
append_reference_AlwaysVerse(rows, text, has_multiple_verses) ==
    Append(rows, ReferenceRow(text))

\* append_reference: a chapter link after several verses, a full verse link
\* otherwise, both made from the text it is handed.
append_reference(rows, text, has_multiple_verses) ==
    IF has_multiple_verses
    THEN Append(rows, ReferenceRow(Text_chapter(text)))
    ELSE Append(rows, ReferenceRow(text))

\* The body of the loop of format_texts for one text, on the state
\* (current, table, section_verse_count).
format_texts_step(state, text) ==
    LET opened ==
            IF state.current = None
            THEN [current |-> Some(Text_chapter(text)),
                  table   |-> Append(state.table, HeaderRow(Text_chapter(text))),
                  section_verse_count |-> state.section_verse_count]
            ELSE IF state.current[1] # Text_chapter(text)
            THEN [current |-> Some(Text_chapter(text)),
                  table   |-> Append(append_reference(state.table, text,
                                                      state.section_verse_count > 1),
                                     HeaderRow(Text_chapter(text))),
                  section_verse_count |-> 0]
            ELSE state
    IN  [current |-> opened.current,
         table   |-> Append(opened.table, VerseRow(text)),
         section_verse_count |-> opened.section_verse_count + 1]

\* What format_texts does after the loop: the reference of texts.last().
format_texts_finish(state, slice) ==
    IF slice = <<>> THEN state.table
    ELSE append_reference(state.table, slice[Len(slice)], state.section_verse_count > 1)

----------------------------------------------------------------------------
(* The location parser applied to one command-line argument, and the verse
   filter applied to the verse it parsed. *)

\* Verse numbers 1..MaxVerse are tried densely, next to the edge values.
MaxVerse == 5

\* Raw argument strings are tried up to this length.
MaxRawLen == 3

ChapterSamples == {0, 3, 23, 127, U16Max}

VerseSamples == (1..MaxVerse) \cup {16, U16Max}

ProbeSamples == (0..(MaxVerse + 1)) \cup {16, U16Max}

RawBytes == {"0", "1", "5", "6", "-", "+", ":"}

RECURSIVE StringsUpTo(_, _)
StringsUpTo(alphabet, n) ==
    IF n = 0 THEN {<<>>}
    ELSE LET shorter == StringsUpTo(alphabet, n - 1)
         IN  shorter \cup {Append(s, b) : s \in shorter, b \in alphabet}

RawStrings == StringsUpTo(RawBytes, MaxRawLen)

FormatChapter(c) == FormatUnsigned(c)

FormatChapterVerse(c, v) == FormatUnsigned(c) \o <<":">> \o FormatUnsigned(v)

FormatChapterRange(c, s, e) ==
    FormatUnsigned(c) \o <<":">> \o FormatUnsigned(s) \o <<"-">> \o FormatUnsigned(e)

\* Verse parts with a zero: "0", "0-3", "3-0".
ZeroVerseParts == {<<"0">>, <<"0", "-", "3">>, <<"3", "-", "0">>}

\* Fields that do not parse, around the length at which an error
\* abbreviates its text: nine and ten bytes, eleven and more, with the
\* letter of two bytes before, across and after the tenth byte.
LongFields ==
    {<<"1", "2", "3", "4", "5", "6", "7", "8", "x">>,
     <<"1", "2", "3", "4", "5", "6", "7", "8", "9", "x">>,
     <<"1", "2", "3", "4", "5", "6", "7", "8", "9", "0", "x">>,
     <<"1", "2", "3", "4", "5", "6", "7", "8", "9", "0", "1", "2", "3">>,
     <<"1", "-", "2", "3", "4", "5", "6", "7", "8", "9", "0", "x">>,
     <<"1", "2", "3", "4", "5", "6", "7", "8", "xC3", "xA9", "1">>,
     <<"1", "2", "3", "4", "5", "6", "7", "8", "9", "xC3", "xA9", "1">>,
     <<"1", "2", "3", "4", "5", "6", "7", "8", "9", "0", "xC3", "xA9">>,
     <<"xC3", "xA9">>}

LocationInputs ==
    {FormatChapter(c) : c \in ChapterSamples}
    \cup {FormatChapterVerse(c, v) : c \in ChapterSamples, v \in VerseSamples}
    \cup {FormatChapterRange(c, s, e) : c \in ChapterSamples, s \in VerseSamples, e \in VerseSamples}
    \cup RawStrings
    \cup {FormatUnsigned(c) \o <<":">> \o r : c \in {3, U16Max + 1}, r \in RawStrings}
    \cup {FormatUnsigned(c) \o <<":">> \o part : c \in {3, 127}, part \in ZeroVerseParts}
    \cup LongFields
    \cup {<<"3", ":">> \o field : field \in LongFields}

\* The parts of the state a run of one component leaves idle.
BookIdle ==
    /\ bookInput = <<>> /\ bookResult = <<>> /\ bookShown = <<>> /\ bookTransition = <<>>
    /\ bookOrdinal = <<>> /\ bookConverted = <<>>

LocationIdle ==
    locInput = <<>> /\ locResult = <<>> /\ probe = <<>> /\ probeResult = <<>>

CliIdle ==
    /\ corpus = <<>> /\ pc = "idle" /\ cursor = 0
    /\ index = <<>> /\ request = <<>> /\ outcome = <<>>
    /\ needle = <<>> /\ candidates = <<>>

LibIdle == winInput = <<>> /\ winOutput = <<>>

FormatIdle ==
    /\ fmtpc = "idle" /\ listed = <<>> /\ position = 0
    /\ current = <<>> /\ section_verse_count = 0 /\ table = <<>>

FacetIdle ==
    /\ dat = <<>> /\ disk = <<>> /\ fpc = "idle" /\ asked = <<>> /\ texts = <<>>

LocationInit == LocationIdle /\ BookIdle /\ CliIdle /\ FacetIdle /\ LibIdle /\ FormatIdle

\* clap hands the location argument to PartialLocation::from_str.
ParseLocation(s) ==
    /\ locResult = None
    /\ locInput' = s
    /\ locResult' = Some(PartialLocation_from_str(s))
    /\ UNCHANGED <<probe, probeResult, bookVars, cliVars, facetVars, libVars, fmtVars>>

\* The retain call of search_by_book_and_location asks the parsed verse
\* whether it contains the verse number of a text.
ProbeVerse(v) ==
    /\ locResult # None
    /\ locResult[1].tag = "Ok"
    /\ locResult[1].verse # None
    /\ probe = None
    /\ probe' = Some(v)
    /\ probeResult' = Some(Verse_contains(locResult[1].verse[1], v))
    /\ UNCHANGED <<locInput, locResult, bookVars, cliVars, facetVars, libVars, fmtVars>>

LocationNext ==
    \/ \E s \in LocationInputs : ParseLocation(s)
    \/ \E v \in ProbeSamples : ProbeVerse(v)

LocationSpec == LocationInit /\ [][LocationNext]_vars

----------------------------------------------------------------------------
(* The book parser applied to one command-line argument, and the display of
   the book it parsed. *)

\* Qualifier numbers 0..MaxQualifier are tried densely, next to the values
\* around the end of u8.
MaxQualifier == 4

QualifierSamples == (0..MaxQualifier) \cup {U8Max, U8Max + 1, U8Max + 2}

AllBooks == Range(Books)

\* The books whose display name starts with a number, and the others.
NumberedBooks == {b \in AllBooks : is_ascii_digit(Book_name(b)[1])}

UnnumberedBooks == AllBooks \ NumberedBooks

\* The name and the number of a numbered display name "n Name".
BaseOf(b) == SubSeq(Book_name(b), 3, Len(Book_name(b)))

NumberOf(b) == DigitVal(Book_name(b)[1])

BaseNames == {BaseOf(b) : b \in NumberedBooks}

\* The three spellings of a base name with a qualifier, and a fourth with
\* the number first and no space.
NumberFirst(q, base) == q \o <<" ">> \o base

NameThenNumber(q, base) == base \o q

NameSpaceNumber(q, base) == base \o <<" ">> \o q

Spellings(q, base) ==
    {NumberFirst(q, base), NameThenNumber(q, base), NameSpaceNumber(q, base)}

\* Inputs with a letter of two bytes, with nothing but spaces or digits
\* after the first character, and with residue in the number.
OddInputs ==
    {<<"xC3", "xA9", "x", "o", "d", "u", "s">>, <<"xC3", "xA9", "1">>,
     <<"J", "o", "xC3", "xA9", "l", "2">>, <<"1", " ", "xC3", "xA9">>,
     <<"1", " ">>, <<" ", "1">>, <<"K", " ", " ">>, <<"7">>, <<" ">>,
     <<"1", "-", "K", "i", "n", "g", "s">>, <<"K", "i", "n", "g", "s", " ", "1", "x">>,
     <<"1", "a", " ", "K", "i", "n", "g", "s">>, <<"K", "i", "n", "g", "s", "-", "1">>,
     <<"+", "1", " ", "K", "i", "n", "g", "s">>, <<"K", "i", "n", "g", "s", " ", "+", "2">>,
     <<"K", "i", "n", "g", "s", " ", "0", "1">>, <<"1", " ", "2", " ", "K", "i", "n", "g", "s">>,
     <<"xC3", "xA9", "0">>}

\* Names of books without a number, with a number attached.
StrayNumberNames ==
    {<<"G", "e", "n", "e", "s", "i", "s">>, <<"P", "s", "a", "l", "m", "s">>,
     <<"J", "u", "d", "e">>}

StrayNumberInputs ==
    UNION {Spellings(q, name) : q \in {<<"1">>, <<"2", "3">>, <<"0">>}, name \in StrayNumberNames}

\* Display names in other cases and with spaces around them.
RecasedNames ==
    {<<"G", "e", "n", "e", "s", "i", "s">>, <<"g", "E", "N", "E", "S", "I", "S">>,
     <<"1", " ", "K", "i", "n", "g", "s">>, <<"1", " ", "k", "I", "N", "G", "S">>}

PaddedInputs ==
    UNION {{n, <<" ">> \o n, n \o <<" ">>, <<" ">> \o n \o <<" ", " ">>} : n \in RecasedNames}

BookInputs ==
    {Book_name(b) : b \in AllBooks}
    \cup BaseNames
    \cup UNION {Spellings(FormatUnsigned(q), base) : q \in QualifierSamples, base \in BaseNames}
    \cup {q \o base : q \in {<<"1">>, <<"3">>}, base \in BaseNames}
    \cup {<<"S", "o", "n", "g", "s">>, <<"g", "e", "n", "e", "s", "i", "s">>,
          <<"A", "u", "s", "t", "i", "n">>, <<>>}
    \cup OddInputs
    \cup StrayNumberInputs
    \cup PaddedInputs

BookInit == LocationIdle /\ BookIdle /\ CliIdle /\ FacetIdle /\ LibIdle /\ FormatIdle

\* clap hands the book argument to Book::from_str.
ParseBook(s) ==
    /\ bookResult = None
    /\ bookInput' = s
    /\ bookResult' = Some(Book_from_str(s))
    /\ bookTransition' = Some(first_numeric_nonnumeric_transition(s))
    /\ UNCHANGED <<bookShown, bookOrdinal, bookConverted, locVars, cliVars, facetVars, libVars, fmtVars>>

\* The output names the parsed book through Display, that is Book::name.
ShowBook ==
    /\ bookResult # None
    /\ bookResult[1].tag = "Ok"
    /\ bookShown = None
    /\ bookShown' = Some(Book_name(bookResult[1].book))
    /\ UNCHANGED <<bookInput, bookResult, bookTransition, bookOrdinal, bookConverted,
                   locVars, cliVars, facetVars, libVars, fmtVars>>

BookNext ==
    \/ \E s \in BookInputs : ParseBook(s)
    \/ ShowBook

BookSpec == BookInit /\ [][BookNext]_vars

----------------------------------------------------------------------------
(* Book::from_u8 applied to one u8. *)

OrdinalInit == LocationIdle /\ BookIdle /\ CliIdle /\ FacetIdle /\ LibIdle /\ FormatIdle

\* From<u8> for Book: Book::from_u8 on any u8.
ConvertOrdinal(u) ==
    /\ bookOrdinal = None
    /\ bookOrdinal' = Some(u)
    /\ bookConverted' = Some(Book_from_u8(u))
    /\ UNCHANGED <<bookInput, bookResult, bookShown, bookTransition,
                   locVars, cliVars, facetVars, libVars, fmtVars>>

OrdinalNext == \E u \in 0..U8Max : ConvertOrdinal(u)

OrdinalSpec == OrdinalInit /\ [][OrdinalNext]_vars

----------------------------------------------------------------------------
(* bible-cli run on a book and a location: build_index over the corpus, one
   record a step, then the lookup. *)

\* A corpus has at most this many lines.
MaxCorpusLines == 3

\* An unsigned integer in decimal, zero-padded to a width.
RECURSIVE Pad(_, _)
Pad(n, width) ==
    IF width = 0 THEN <<>> ELSE Append(Pad(n \div 10, width - 1), Digits[(n % 10) + 1])

\* A corpus line: the header BBCCCVVV, the separator, the text.
MakeLine(r) == Pad(r.book, 2) \o Pad(r.chapter, 3) \o Pad(r.verse, 3) \o <<" ">> \o r.text

TheEarth == <<"T", "h", "e", " ", "e", "a", "r", "t", "h">>

\* The records corpora are made of; the last repeats the address of the first.
CorpusRecords ==
    {[book |-> 19, chapter |-> 23, verse |-> 1, text |-> TheEarth],
     [book |-> 19, chapter |-> 23, verse |-> 2, text |-> <<"H", "e">>],
     [book |-> 19, chapter |-> 24, verse |-> 1, text |-> <<"W", "h", "o">>],
     [book |-> 1, chapter |-> 1, verse |-> 1, text |-> <<"I", "n">>],
     [book |-> 19, chapter |-> 23, verse |-> 1, text |-> <<"D", "u", "p">>]}

\* Lines no record makes: a letter in the header, a book number of no book,
\* a line shorter than its header.
MalformedLines ==
    {<<"1", "9", "0", "2", "3", "0", "0", "x", " ", "B", "a", "d">>,
     <<"6", "7", "0", "0", "1", "0", "0", "1", " ", "N", "o">>,
     <<"1", "9", "0", "2", "3">>}

LinePool == {MakeLine(r) : r \in CorpusRecords} \cup MalformedLines

RECURSIVE JoinLines(_)
JoinLines(ls) ==
    IF ls = <<>> THEN <<>> ELSE Head(ls) \o <<"LF">> \o JoinLines(Tail(ls))

Corpora == {JoinLines(ls) : ls \in StringsUpTo(LinePool, MaxCorpusLines)}

RequestBooks == {"Genesis", "Exodus", "Psalms"}

RequestLocations ==
    {None} \cup {Some([chapter |-> c, verse |-> v]) :
                    c \in {1, 23, 24, 25}, v \in {None, Some(1), Some(2), Some(3)}}

CliInit ==
    /\ LocationIdle /\ BookIdle /\ FacetIdle /\ LibIdle /\ FormatIdle
    /\ corpus \in Corpora
    /\ pc = "build"
    /\ cursor = 0
    /\ index = <<>>
    /\ request = None
    /\ outcome = None
    /\ needle = None
    /\ candidates = <<>>

\* One turn of build_index's loop.
BuildRecord ==
    /\ pc = "build"
    /\ cursor < Len(lines(corpus))
    /\ LET r == ParseRecord(lines(corpus)[cursor + 1])
       IN  IF r.panic
           THEN /\ pc' = "panic"
                /\ UNCHANGED <<cursor, index>>
           ELSE /\ index' = InsertRecord(index, r.book, r.chapter, r.verse, r.text)
                /\ cursor' = cursor + 1
                /\ pc' = pc
    /\ UNCHANGED <<corpus, request, outcome, needle, candidates, locVars, bookVars, facetVars, libVars, fmtVars>>

\* build_index returns once the lines are used up.
BuildDone ==
    /\ pc = "build"
    /\ cursor = Len(lines(corpus))
    /\ pc' = "built"
    /\ UNCHANGED <<corpus, cursor, index, request, outcome, needle, candidates, locVars, bookVars, facetVars, libVars, fmtVars>>

\* The rest of run: the book's index is looked up and printed.
Lookup(book, location) ==
    /\ pc = "built"
    /\ request' = Some([book |-> book, location |-> location])
    /\ outcome' = Some(run_lookup(index, book, location))
    /\ pc' = "done"
    /\ UNCHANGED <<corpus, cursor, index, needle, candidates, locVars, bookVars, facetVars, libVars, fmtVars>>

CliNext ==
    \/ BuildRecord
    \/ BuildDone
    \/ \E book \in RequestBooks, location \in RequestLocations : Lookup(book, location)

CliSpec == CliInit /\ [][CliNext]_vars

----------------------------------------------------------------------------
(* bible-cli run on the search command: one call of search over the
   corpus. *)

\* A searched corpus has at most this many lines.
MaxSearchLines == 12

\* The texts of a searched corpus repeat with this period.
TextPeriod == 3

SearchTexts ==
    <<<<"l", "o", "v", "e">>, <<"L", "i", "v", "e">>, <<"a">>, <<"L", "o", "r", "d">>>>

\* The queries: words of the texts, the empty query, a query longer than
\* every text.
SearchNeedles ==
    {<<"l", "o", "v", "e">>, <<"l", "I">>, <<"d">>, <<"o", "r">>, <<>>,
     <<"l", "o", "r", "d", "s">>}

\* A corpus of n lines, Psalms 23:1 to 23:n in order, the text of line i
\* chosen by the pattern.
PatternCorpus(n, pattern) ==
    JoinLines([i \in 1..n |->
        MakeLine([book |-> 19, chapter |-> 23, verse |-> i,
                  text |-> SearchTexts[pattern[((i - 1) % TextPeriod) + 1]]])])

SearchCorpora ==
    {PatternCorpus(n, pattern) :
        n \in 0..MaxSearchLines, pattern \in [1..TextPeriod -> DOMAIN SearchTexts]}

SearchInit ==
    /\ LocationIdle /\ BookIdle /\ FacetIdle /\ LibIdle /\ FormatIdle
    /\ corpus \in SearchCorpora
    /\ pc = "dispatch"
    /\ cursor = 0
    /\ index = <<>>
    /\ request = None
    /\ outcome = None
    /\ needle = None
    /\ candidates = <<>>

\* dispatch: Command::Search runs search on the query.
Search(query) ==
    /\ pc = "dispatch"
    /\ needle' = Some(query)
    /\ LET result == search(query, corpus)
       IN  /\ pc' = IF result.panic THEN "panic" ELSE "done"
           /\ candidates' = result.lines
    /\ UNCHANGED <<corpus, cursor, index, request, outcome, locVars, bookVars, facetVars, libVars, fmtVars>>

SearchNext == \E query \in SearchNeedles : Search(query)

SearchSpec == SearchInit /\ [][SearchNext]_vars

----------------------------------------------------------------------------
(* fiat-lux: initialize_search builds or opens the index, then
   search_by_book_and_location answers one query; the program may be run
   again on the index directory the earlier runs left. *)

MaxFacetLines == 3

\* The lines of KJV_DAT: the records, a line whose header has a letter and
\* a line whose book number is of no book.
FacetLinePool ==
    {MakeLine(r) : r \in CorpusRecords} \cup {l \in MalformedLines : Len(l) > 8}

FacetCorpora ==
    {JoinLines(ls) : ls \in {s \in StringsUpTo(FacetLinePool, MaxFacetLines) :
                                \A i, j \in DOMAIN s : i # j => s[i] # s[j]}}

\* ASV_DAT: one record, at an address the other translation may have too.
AsvDat ==
    JoinLines(<<MakeLine([book |-> 19, chapter |-> 23, verse |-> 1,
                          text |-> <<"A", "s", "v">>])>>)

FacetBooks == {"Genesis", "Psalms"}

FacetVerses ==
    {None,
     Some([start |-> 1, end |-> None]),
     Some([start |-> 1, end |-> Some(2)]),
     Some([start |-> 2, end |-> Some(1)])}

FacetLocations ==
    {None} \cup {Some([chapter |-> 23, verse |-> v]) : v \in FacetVerses}
           \cup {Some([chapter |-> c, verse |-> None]) : c \in {2, 24}}
           \cup {Some([chapter |-> 24, verse |-> Some([start |-> 1, end |-> None])])}

FacetInit ==
    /\ LocationIdle /\ BookIdle /\ CliIdle /\ LibIdle /\ FormatIdle
    /\ dat \in {[Kjv |-> k, Asv |-> AsvDat] : k \in FacetCorpora}
    /\ disk = [exists |-> FALSE, docs |-> <<>>]
    /\ fpc = "start"
    /\ asked = None
    /\ texts = <<>>

\* initialize_search, no index in the directory: Index::create_in_dir.
CreateIndex ==
    /\ fpc = "start"
    /\ ~disk.exists
    /\ disk' = [disk EXCEPT !.exists = TRUE]
    /\ fpc' = "write_kjv"
    /\ UNCHANGED <<dat, asked, texts, locVars, bookVars, cliVars, libVars, fmtVars>>

\* initialize_search: write_index of one translation, through its commit.
WriteIndex(translation) ==
    /\ fpc = (IF translation = "Kjv" THEN "write_kjv" ELSE "write_asv")
    /\ LET written == write_index(translation, dat[translation], disk.docs)
       IN  IF written.panic
           THEN fpc' = "panic" /\ UNCHANGED disk
           ELSE /\ disk' = [disk EXCEPT !.docs = written.docs]
                /\ fpc' = (IF translation = "Kjv" THEN "write_asv" ELSE "ready")
    /\ UNCHANGED <<dat, asked, texts, locVars, bookVars, cliVars, libVars, fmtVars>>

\* initialize_search, an index in the directory: Index::open.
OpenIndex ==
    /\ fpc = "start"
    /\ disk.exists
    /\ fpc' = "ready"
    /\ UNCHANGED <<dat, disk, asked, texts, locVars, bookVars, cliVars, libVars, fmtVars>>

\* run: search_by_book_and_location on the index initialize_search returned.
SearchByBookAndLocation(book, location, translation) ==
    /\ fpc = "ready"
    /\ asked' = Some([book |-> book, location |-> location, translation |-> translation,
                      path |-> LocationPath(book, location)])
    /\ \E result \in search_by_book_and_location(disk.docs, book, location, translation) :
          /\ texts' = result.texts
          /\ fpc' = (IF result.panic THEN "panic" ELSE "done")
    /\ UNCHANGED <<dat, disk, locVars, bookVars, cliVars, libVars, fmtVars>>

\* The process ends inside initialize_search, after Index::create_in_dir
\* and before a commit of write_index: it is killed, or index.writer,
\* add_document or commit returns an error that `?` hands to main.  What is
\* committed stays in the directory.
StopWriting ==
    /\ fpc \in {"write_kjv", "write_asv"}
    /\ fpc' = "stopped"
    /\ UNCHANGED <<dat, disk, asked, texts, locVars, bookVars, cliVars, libVars, fmtVars>>

\* The process has ended; the program is started again on the same
\* directory.
Rerun ==
    /\ fpc \in {"done", "panic", "stopped"}
    /\ fpc' = "start"
    /\ asked' = None
    /\ texts' = <<>>
    /\ UNCHANGED <<dat, disk, locVars, bookVars, cliVars, libVars, fmtVars>>

FacetNext ==
    \/ CreateIndex
    \/ WriteIndex("Kjv")
    \/ WriteIndex("Asv")
    \/ OpenIndex
    \/ StopWriting
    \/ \E book \in FacetBooks, location \in FacetLocations, translation \in {"Kjv", "Asv"} :
          SearchByBookAndLocation(book, location, translation)
    \/ Rerun

FacetSpec == FacetInit /\ [][FacetNext]_vars

----------------------------------------------------------------------------
(* SplitWindows::windows applied to one text and one window length. *)

MaxWindowChars == 3

MaxWindowLen == 3

\* The characters the texts are made of: a letter, a digit, the underscore,
\* a blank, a hyphen and the two-byte letter.
WindowChars == {<<"a">>, <<"7">>, <<"_">>, <<" ">>, <<"-">>, <<"xC3", "xA9">>}

RECURSIVE CharStrings(_)
CharStrings(n) ==
    IF n = 0 THEN {<<>>}
    ELSE LET shorter == CharStrings(n - 1)
         IN  shorter \cup {s \o c : s \in shorter, c \in WindowChars}

\* The text of the test in search.rs.
HowNowBrownCow ==
    <<"H", "O", "W", " ", "N", "O", "W", " ", "B", "R", "O", "W", "N", " ", "C", "O", "W">>

WindowTexts == CharStrings(MaxWindowChars) \cup {HowNowBrownCow}

WindowsInit == LocationIdle /\ BookIdle /\ CliIdle /\ FacetIdle /\ LibIdle /\ FormatIdle

\* splitter.windows(text, len).collect()
Windows(text, len) ==
    /\ winInput = None
    /\ winInput' = Some([text |-> text, len |-> len])
    /\ winOutput' = Some(SplitWindows_windows(text, len))
    /\ UNCHANGED <<locVars, bookVars, cliVars, facetVars, fmtVars>>

WindowsNext == \E text \in WindowTexts, len \in 0..MaxWindowLen : Windows(text, len)

WindowsSpec == WindowsInit /\ [][WindowsNext]_vars
----------------------------------------------------------------------------
(* format_texts applied to one list of texts, one text of the loop at a
   time. *)

MaxTexts == 3

MaxFormatChapter == 2

\* The texts a list is made of: verses 1 and 2 of the first chapters of two
\* books, the content telling the texts apart.
FormatBooks == {"Genesis", "Exodus"}

FormatTexts ==
    {[book |-> b, chapter |-> c, verse |-> v,
      content |-> <<b, FormatUnsigned(c), FormatUnsigned(v)>>] :
        b \in FormatBooks, c \in 1..MaxFormatChapter, v \in 1..2}

FormatLists == UNION {[1..n -> FormatTexts] : n \in 0..MaxTexts}

FormatInit == LocationIdle /\ BookIdle /\ CliIdle /\ FacetIdle /\ LibIdle /\ FormatIdle

\* format_texts(&texts, ..) up to the loop.
FormatTextsStart(list) ==
    /\ fmtpc = "idle"
    /\ fmtpc' = "loop"
    /\ listed' = list
    /\ position' = 1
    /\ current' = None
    /\ table' = <<>>
    /\ section_verse_count' = 0
    /\ UNCHANGED <<locVars, bookVars, cliVars, facetVars, libVars>>

\* One turn of `for text in texts`.
FormatText ==
    /\ fmtpc = "loop"
    /\ position <= Len(listed)
    /\ LET after == format_texts_step([current |-> current, table |-> table,
                                       section_verse_count |-> section_verse_count],
                                      listed[position])
       IN  /\ current' = after.current
           /\ table' = after.table
           /\ section_verse_count' = after.section_verse_count
    /\ position' = position + 1
    /\ UNCHANGED <<fmtpc, listed, locVars, bookVars, cliVars, facetVars, libVars>>

\* The end of the loop: the reference of the last text, then the table is
\* printed.
FormatTextsFinish ==
    /\ fmtpc = "loop"
    /\ position > Len(listed)
    /\ table' = format_texts_finish([current |-> current, table |-> table,
                                     section_verse_count |-> section_verse_count], listed)
    /\ fmtpc' = "done"
    /\ UNCHANGED <<listed, position, current, section_verse_count,
                   locVars, bookVars, cliVars, facetVars, libVars>>

FormatNext ==
    \/ \E list \in FormatLists : FormatTextsStart(list)
    \/ FormatText
    \/ FormatTextsFinish

FormatSpec == FormatInit /\ [][FormatNext]_vars

----------------------------------------------------------------------------
(* Properties of the location parser and of the verse filter *)

\* C3: PartialLocation::from_str maps the decimal text "c" to chapter c with
\* no verse, "c:v" to chapter c with the single verse v, and "c:s-e" to
\* chapter c with the range from s to e, for chapters in u16 and positive
\* u16 verse numbers.
C3_FromStrMapsThreeShapes ==
    locResult # None =>
        /\ \A c \in ChapterSamples :
               locInput = FormatChapter(c) => locResult[1] = LocOk(c, None)
        /\ \A c \in ChapterSamples, v \in VerseSamples :
               locInput = FormatChapterVerse(c, v)
                   => locResult[1] = LocOk(c, Some([start |-> v, end |-> None]))
        /\ \A c \in ChapterSamples, s \in VerseSamples, e \in VerseSamples :
               locInput = FormatChapterRange(c, s, e)
                   => locResult[1] = LocOk(c, Some([start |-> s, end |-> Some(e)]))

\* "127:4-5" has been parsed to chapter 127, verses 4 to 5.
C3_Witness ==
    /\ locInput = <<"1", "2", "7", ":", "4", "-", "5">>
    /\ locResult = Some(LocOk(127, Some([start |-> 4, end |-> Some(5)])))

\* C4: Verse::contains(v) is true exactly when v is the start of a single
\* verse, and exactly when start <= v <= end for a range; contains(0) is
\* false for every verse.
C4_ContainsIsMembership ==
    probeResult # None =>
        LET verse == locResult[1].verse[1]
            v     == probe[1]
        IN  /\ verse.end = None => (probeResult[1] <=> v = verse.start)
            /\ verse.end # None =>
                   (probeResult[1] <=> (verse.start <= v /\ v <= verse.end[1]))
            /\ v = 0 => probeResult[1] = FALSE

\* A range has been asked for its own end, and contains it.
C4_Witness ==
    /\ locResult # None /\ locResult[1].tag = "Ok"
    /\ locResult[1].verse # None
    /\ locResult[1].verse[1].end # None
    /\ locResult[1].verse[1].start < locResult[1].verse[1].end[1]
    /\ probe = locResult[1].verse[1].end
    /\ probeResult = Some(TRUE)

\* C5: a verse range whose end is smaller than its start is rejected: no
\* parsed verse has an end below its start.
C5_InvertedRangeRejected ==
    (locResult # None /\ locResult[1].tag = "Ok" /\ locResult[1].verse # None
        /\ locResult[1].verse[1].end # None)
        => locResult[1].verse[1].end[1] >= locResult[1].verse[1].start

\* C20: a parsed verse has a start of at least 1 and, if it is a range, an
\* end of at least 1; the verse parts "0", "0-3" and "3-0" are rejected
\* with ParseLocationError::Verse, which keeps the part and the cause.
C20_VerseNumbersArePositive ==
    locResult # None =>
        /\ (locResult[1].tag = "Ok" /\ locResult[1].verse # None) =>
              /\ locResult[1].verse[1].start >= 1
              /\ locResult[1].verse[1].end # None => locResult[1].verse[1].end[1] >= 1
        /\ \A c \in {3, 127}, part \in ZeroVerseParts :
              locInput = FormatUnsigned(c) \o <<":">> \o part =>
                  locResult[1] = [tag |-> "Err", chapter |-> 0, verse |-> None,
                                  kind |-> "Verse", text |-> part, cause |-> "Zero"]

\* C20 witness: "3:3-0" has been rejected for the zero at the end of its
\* range.
C20_Witness ==
    /\ locInput = <<"3", ":", "3", "-", "0">>
    /\ locResult # None
    /\ locResult[1].tag = "Err"
    /\ locResult[1].kind = "Verse"
    /\ locResult[1].cause = "Zero"

\* The chapter field and the verse field of a location argument: the parts
\* before and after the first colon.
ChapterField(s) ==
    IF \E i \in DOMAIN s : s[i] = ":"
    THEN SubSeq(s, 1, (CHOOSE i \in DOMAIN s : s[i] = ":" /\ \A j \in 1..(i - 1) : s[j] # ":") - 1)
    ELSE s

VerseField(s) == SubSeq(s, Len(ChapterField(s)) + 2, Len(s))

\* A substring as an error retains it: whole up to 10 bytes, else its
\* first 10 bytes and "...".
Retained(field) ==
    IF Len(field) <= LocationErrorLimit THEN field
    ELSE SubSeq(field, 1, LocationErrorLimit) \o <<".", ".", ".">>

\* C21: a location argument that does not parse gives an error that
\* retains the field that failed: the chapter error the chapter field, the
\* verse error the verse field, whole when at most 10 bytes long and
\* otherwise the first 10 bytes followed by "...".
C21_ErrorRetainsOffendingField ==
    (locResult # None /\ locResult[1].tag # "Ok") =>
        /\ locResult[1].tag = "Err"
        /\ locResult[1].kind = "Chapter" => locResult[1].text = Retained(ChapterField(locInput))
        /\ locResult[1].kind = "Verse" => locResult[1].text = Retained(VerseField(locInput))

----------------------------------------------------------------------------
(* Properties of the book parser *)

\* C6: for every book whose display name carries no number, parsing the
\* display name gives back that book.
C6_UnnumberedNameRoundTrips ==
    bookResult # None =>
        \A b \in UnnumberedBooks :
            bookInput = Book_name(b) => bookResult[1] = BookOk(b)

\* "Song of Songs" has been parsed to the book SongofSongs.
C6_Witness ==
    /\ bookInput = <<"S", "o", "n", "g", " ", "o", "f", " ", "S", "o", "n", "g", "s">>
    /\ bookResult = Some(BookOk("SongofSongs"))

\* C7: for every numbered book, with base name N and number n, the spellings
\* "n N", "Nn" and "N n" all parse to that book, the one displayed as "n N".
C7_NumberedSpellingsAgree ==
    bookResult # None =>
        \A b \in NumberedBooks :
            bookInput \in Spellings(FormatUnsigned(NumberOf(b)), BaseOf(b))
                => /\ bookResult[1] = BookOk(b)
                   /\ bookShown # None
                          => bookShown[1] = NumberFirst(FormatUnsigned(NumberOf(b)), BaseOf(b))

\* "Kings1" has been parsed to the book that is displayed as "1 Kings".
C7_Witness ==
    /\ bookInput = <<"K", "i", "n", "g", "s", "1">>
    /\ bookResult = Some(BookOk("Kings1"))
    /\ bookShown = Some(<<"1", " ", "K", "i", "n", "g", "s">>)

\* The qualifiers that select a book of a base name: 1, 2 and 3 for John,
\* 1 and 2 for the other base names.
JohnBase == <<"J", "o", "h", "n">>

SelectingQualifiers(base) == IF base = JohnBase THEN {1, 2, 3} ELSE {1, 2}

\* The book displayed as "q base".
VariantOf(base, q) ==
    CHOOSE b \in NumberedBooks : BaseOf(b) = base /\ NumberOf(b) = q

\* C8: a base name with variants needs its qualifier: 1 or 2 (for John also
\* 3) selects the matching book, any other qualifier is a ParseBookError;
\* with no qualifier John is the Gospel and every other such name is a
\* ParseBookError.
C8_QualifierSelectsVariant ==
    bookResult # None =>
        \A base \in BaseNames :
            /\ bookInput = base =>
                   IF base = JohnBase THEN bookResult[1] = BookOk("John")
                   ELSE bookResult[1].tag = "Err"
            /\ \A q \in QualifierSamples :
                   bookInput \in Spellings(FormatUnsigned(q), base) =>
                       IF q \in SelectingQualifiers(base)
                       THEN bookResult[1] = BookOk(VariantOf(base, q))
                       ELSE bookResult[1].tag = "Err"

\* "Samuel 3" has been rejected, with the text kept in the error.
C8_Witness ==
    /\ bookInput = <<"S", "a", "m", "u", "e", "l", " ", "3">>
    /\ bookResult # None
    /\ bookResult[1].tag = "Err"
    /\ bookResult[1].text = bookInput

----------------------------------------------------------------------------
(* Properties of the corpus index *)

\* The record a well-formed line of the corpus was made from.
RecordOfLine(line) == CHOOSE r \in CorpusRecords : MakeLine(r) = line

SameAddress(r, q) == r.book = q.book /\ r.chapter = q.chapter /\ r.verse = q.verse

\* The request asks for the address of record r.
RequestsAddressOf(r) ==
    /\ request # None
    /\ request[1].book = Books[r.book]
    /\ request[1].location = Some([chapter |-> r.chapter, verse |-> Some(r.verse)])

CorpusHasBook(book) ==
    \E i \in DOMAIN lines(corpus) : Books[RecordOfLine(lines(corpus)[i]).book] = book

CorpusHasChapter(book, chapter) ==
    \E i \in DOMAIN lines(corpus) :
        LET r == RecordOfLine(lines(corpus)[i])
        IN  Books[r.book] = book /\ r.chapter = chapter

CorpusHasVerse(book, chapter, verse) ==
    \E i \in DOMAIN lines(corpus) :
        LET r == RecordOfLine(lines(corpus)[i])
        IN  Books[r.book] = book /\ r.chapter = chapter /\ r.verse = verse

\* C2: a lookup fails with the entity that is missing: Book (and no
\* location) for an absent book, Chapter for an absent chapter of a present
\* book, Verse for an absent verse of a present chapter; a deeper entity is
\* never reported when a shallower one is missing.
C2_NotFoundNamesMissingEntity ==
    pc = "done" =>
        LET book     == request[1].book
            location == request[1].location
            result   == outcome[1]
        IN  /\ ~CorpusHasBook(book) => result = NotFound("Book", book, None)
            /\ (CorpusHasBook(book) /\ location # None
                    /\ ~CorpusHasChapter(book, location[1].chapter))
                   => result = NotFound("Chapter", book, location)
            /\ (location # None /\ CorpusHasChapter(book, location[1].chapter)
                    /\ location[1].verse # None
                    /\ ~CorpusHasVerse(book, location[1].chapter, location[1].verse[1]))
                   => result = NotFound("Verse", book, location)
            /\ (result.tag = "NotFound" /\ result.entity = "Chapter") => CorpusHasBook(book)
            /\ (result.tag = "NotFound" /\ result.entity = "Verse")
                   => CorpusHasChapter(book, location[1].chapter)

\* A chapter that Psalms does not have has been asked for, with a verse, and
\* run returned NotFound for the chapter.
C2_Witness ==
    /\ pc = "done"
    /\ CorpusHasBook("Psalms")
    /\ request = Some([book |-> "Psalms",
                       location |-> Some([chapter |-> 25, verse |-> Some(1)])])
    /\ outcome = Some(NotFound("Chapter", "Psalms",
                               Some([chapter |-> 25, verse |-> Some(1)])))

----------------------------------------------------------------------------
(* Properties of the approximate search *)

\* The distance search gives each line of the corpus for the needle, an
\* Option, by the place of the line.
DistanceByPlace ==
    LET ls == lines(corpus)
        q  == to_ascii_uppercase(needle[1])
    IN  [i \in DOMAIN ls |-> ScoreLine(q, ls[i]).distance]

\* The place in the corpus of each candidate (0 for a line not of the corpus).
PlaceOfCandidate ==
    LET ls == lines(corpus)
    IN  [k \in DOMAIN candidates |->
            IF \E i \in DOMAIN ls : ls[i] = candidates[k]
            THEN CHOOSE i \in DOMAIN ls : ls[i] = candidates[k]
            ELSE 0]

\* C10: the candidates are lines with a distance, in ascending order of
\* distance and, at equal distance, in corpus order; they are cut to the
\* limit; every scoring line left out is at least as far as every candidate.
C10_CandidatesAscendingStableCut ==
    (pc = "done" /\ needle # None) =>
        LET distance == DistanceByPlace
            place    == PlaceOfCandidate
            scoring  == {i \in DOMAIN distance : distance[i] # None}
            chosen   == Range(place)
        IN  /\ chosen \subseteq scoring
            /\ \A j \in DOMAIN place, k \in DOMAIN place :
                   j < k =>
                       \/ distance[place[j]][1] < distance[place[k]][1]
                       \/ /\ distance[place[j]][1] = distance[place[k]][1]
                          /\ place[j] < place[k]
            /\ Len(candidates) = IF Cardinality(scoring) < SearchLimit
                                 THEN Cardinality(scoring) ELSE SearchLimit
            /\ \A i \in scoring \ chosen :
                   \A k \in DOMAIN place : distance[i][1] >= distance[place[k]][1]

\* More lines scored than the limit: the list printed is full, starts with
\* two lines of equal distance and ends with a farther one, and a scoring
\* line is left out.
C10_Witness ==
    /\ pc = "done" /\ needle # None
    /\ Len(candidates) = SearchLimit
    /\ LET distance == DistanceByPlace
           place    == PlaceOfCandidate
       IN  /\ Cardinality({i \in DOMAIN distance : distance[i] # None}) > SearchLimit
           /\ distance[place[1]] = distance[place[2]]
           /\ distance[place[1]][1] < distance[place[SearchLimit]][1]
           /\ \E i \in DOMAIN distance : distance[i] # None /\ i \notin Range(place)

----------------------------------------------------------------------------
(* Properties of search_by_book_and_location *)

\* The committed documents of the asked translation filed under the asked
\* book and, when a location is asked, its chapter.
DocsUnderAskedPath ==
    LET q == asked[1]
    IN  {i \in DOMAIN disk.docs :
            /\ disk.docs[i].translation = <<Translation_fmt(q.translation)>>
            /\ disk.docs[i].location[1] = FormatUnsigned(Book_as_u8(q.book))
            /\ q.location # None =>
                  disk.docs[i].location[2] = FormatUnsigned(q.location[1].chapter)}

\* Those of them the asked verse or verse range, if any, contains.
DocsAskedFor ==
    LET q == asked[1]
    IN  {i \in DocsUnderAskedPath :
            (q.location # None /\ q.location[1].verse # None) =>
                Verse_contains(q.location[1].verse[1],
                               parse_unsigned(disk.docs[i].location[3], U16Max).val)}

\* A returned text is the record of a document.
TextIsDocument(text, document) ==
    /\ FormatUnsigned(Book_as_u8(text.book)) = document.location[1]
    /\ FormatUnsigned(text.chapter) = document.location[2]
    /\ FormatUnsigned(text.verse) = document.location[3]
    /\ text.content = document.content

\* C9: a finished search has returned exactly the records of the asked
\* translation filed under the asked book (and chapter, if a location is
\* asked) whose verse the asked verse or range contains (all of them when
\* no verse is asked), each once, in ascending order of (book, chapter,
\* verse).
C9_SearchReturnsSortedRecordsOfPath ==
    (fpc = "done" /\ asked # None) =>
        /\ \E place \in [DOMAIN texts -> DocsAskedFor] :
              /\ \A i, j \in DOMAIN texts : i # j => place[i] # place[j]
              /\ \A i \in DocsAskedFor : \E k \in DOMAIN texts : place[k] = i
              /\ \A k \in DOMAIN texts : TextIsDocument(texts[k], disk.docs[place[k]])
        /\ \A k \in 1..(Len(texts) - 1) :
              LET a == texts[k]
                  b == texts[k + 1]
              IN  \/ Book_as_u8(a.book) < Book_as_u8(b.book)
                  \/ Book_as_u8(a.book) = Book_as_u8(b.book) /\ a.chapter < b.chapter
                  \/ Book_as_u8(a.book) = Book_as_u8(b.book) /\ a.chapter = b.chapter
                        /\ a.verse <= b.verse

\* C9 witness: a search with a verse has returned two records of the
\* chapter and left out another, and the other translation has a record
\* in the chapter as well.
C9_Witness ==
    /\ fpc = "done"
    /\ asked # None
    /\ asked[1].location # None
    /\ asked[1].location[1].verse # None
    /\ Len(texts) = 2
    /\ Cardinality(DocsUnderAskedPath) > Len(texts)
    /\ \E i \in DOMAIN disk.docs :
          /\ disk.docs[i].translation # <<Translation_fmt(asked[1].translation)>>
          /\ disk.docs[i].location[2] = FormatUnsigned(asked[1].location[1].chapter)

----------------------------------------------------------------------------
(* Properties of the approximate matcher *)

\* The upper-cased query and the upper-cased text of a line, as search
\* hands them to edit_distance.
UpperNeedle == to_ascii_uppercase(needle[1])

UpperText(line) == to_ascii_uppercase(SubSeq(line, 10, Len(line)))

\* The distances of the query to the windows of a text that begin a word
\* and begin with the first byte of the query.
AnchoredDistances(q, text) ==
    {get_distance(q, w) : w \in {x \in Range(SplitWindows_windows(text, Len(q))) : x[1] = q[1]}}

\* C11: the distance the matcher gave a printed candidate is the least
\* distance of the query to a window of the candidate's text that begins a
\* word; no window that begins inside a word gives it.
C11_ScoreIsOverWordAnchoredWindows ==
    (pc = "done" /\ needle # None) =>
        \A k \in DOMAIN candidates :
            LET score    == edit_distance(UpperNeedle, UpperText(candidates[k]))
                anchored == AnchoredDistances(UpperNeedle, UpperText(candidates[k]))
            IN  /\ anchored # {}
                /\ score.distance = Some(Min(anchored))

\* The windows of a text as long as the query that begin with the first
\* byte of the query.
FirstByteWindows(q, text) ==
    {SubSeq(text, i, i + Len(q) - 1) :
        i \in {j \in 1..(Len(text) - Len(q) + 1) : text[j] = q[1]}}

CorpusLines == Range(lines(corpus))

\* C12 as stated: a line of the corpus is among the printed candidates if
\* and only if its upper-cased text has a window of the length of the query
\* that begins with the first byte of the upper-cased query.
C12_CandidateIffFirstByteWindow ==
    (pc = "done" /\ needle # None) =>
        \A line \in CorpusLines :
            line \in Range(candidates)
                <=> FirstByteWindows(UpperNeedle, UpperText(line)) # {}

\* C12 amended: every printed candidate has such a window and its distance
\* is the least distance to such a window; a line with such a window is
\* printed unless the limit of printed candidates is reached.
C12_CandidatesHaveFirstByteWindow ==
    (pc = "done" /\ needle # None) =>
        /\ \A k \in DOMAIN candidates :
              LET windows == FirstByteWindows(UpperNeedle, UpperText(candidates[k]))
              IN  /\ windows # {}
                  /\ edit_distance(UpperNeedle, UpperText(candidates[k])).distance
                        = Some(Min({get_distance(UpperNeedle, w) : w \in windows}))
        /\ \A line \in CorpusLines :
              FirstByteWindows(UpperNeedle, UpperText(line)) # {}
                  => (line \in Range(candidates) \/ Len(candidates) = SearchLimit)

\* C12 witness: a search has printed a candidate and left out a line
\* shorter than the query and a line long enough that has no window
\* beginning with the first byte of the query.
C12_Witness ==
    /\ pc = "done"
    /\ needle # None
    /\ candidates # <<>>
    /\ \E line \in CorpusLines \ Range(candidates) :
          Len(UpperText(line)) < Len(UpperNeedle)
    /\ \E line \in CorpusLines \ Range(candidates) :
          /\ Len(UpperText(line)) >= Len(UpperNeedle)
          /\ FirstByteWindows(UpperNeedle, UpperText(line)) = {}

\* The query occurs in the text of a line, cases aside, at the start of a
\* word.
OccursAtWordStart(q, line) ==
    \E i \in WordStarts(UpperText(line)) :
        /\ i + Len(q) <= Len(UpperText(line))
        /\ SubSeq(UpperText(line), i + 1, i + Len(q)) = to_ascii_uppercase(q)

\* The query occurs somewhere in the text of a line, cases aside.
Occurs(q, line) ==
    \E i \in 0..(Len(UpperText(line)) - Len(q)) :
        SubSeq(UpperText(line), i + 1, i + Len(q)) = to_ascii_uppercase(q)

\* C13: a line in whose text the query occurs at the start of a word,
\* cases aside, is given distance 0; it is printed, or as many lines as
\* are printed all hold the query and come before it.
C13_OccurrenceAtWordStartScoresZero ==
    (pc = "done" /\ needle # None /\ needle[1] # <<>>) =>
        \A line \in CorpusLines :
            OccursAtWordStart(needle[1], line) =>
                /\ ScoreLine(UpperNeedle, line) = [panic |-> FALSE, distance |-> Some(0)]
                /\ \/ line \in Range(candidates)
                   \/ /\ Len(candidates) = SearchLimit
                      /\ \A k \in DOMAIN candidates : Occurs(needle[1], candidates[k])

\* C13 witness: a search has printed a line in which the query occurs at
\* the start of a word in other cases than the query's, before a line in
\* which it does not occur.
C13_Witness ==
    /\ pc = "done"
    /\ needle # None
    /\ \E k \in DOMAIN candidates :
          /\ OccursAtWordStart(needle[1], candidates[k])
          /\ \A i \in DOMAIN needle[1] : SubSeq(candidates[k], 10, Len(candidates[k]))[i] # needle[1][i]
          /\ \E j \in DOMAIN candidates : j > k /\ ~Occurs(needle[1], candidates[j])

\* The path of a query as C14 states it: the book's number, the chapter
\* if one is asked, the verse if a single verse is asked.
PathWithVerse(book, location) ==
    <<"/">> \o FormatUnsigned(Book_as_u8(book))
        \o (IF location = None THEN <<>>
            ELSE <<"/">> \o FormatUnsigned(location[1].chapter)
                 \o (IF location[1].verse # None /\ location[1].verse[1].end = None
                     THEN <<"/">> \o FormatUnsigned(location[1].verse[1].start)
                     ELSE <<>>))

\* C14: the path a search has queried is that of the book, then the
\* chapter if a chapter is asked, then the verse if a single verse is
\* asked.
C14_QueryPathHasAskedComponents ==
    (fpc = "done" /\ asked # None) =>
        asked[1].path = PathWithVerse(asked[1].book, asked[1].location)

----------------------------------------------------------------------------
(* Properties of the stored paths *)

\* The path of a record's address: the numbers in decimal, no leading
\* zeros.
PathOfRecord(r) ==
    <<"/">> \o FormatUnsigned(r.book) \o <<"/">> \o FormatUnsigned(r.chapter)
            \o <<"/">> \o FormatUnsigned(r.verse)

\* The records whose lines are in the corpus of the first translation.
KjvRecords == {r \in CorpusRecords : MakeLine(r) \in Range(lines(dat.Kjv))}

\* C15: when write_index has committed the first translation, every line
\* of its corpus with a header BBCCCVVV of a book has a document whose
\* stored path is "/B/C/V" and which Text::from_document decodes to book
\* B, chapter C, verse V and the text of the line.
C15_StoredPathDecodesToHeaderAddress ==
    fpc = "write_asv" =>
        \A r \in KjvRecords :
            \E i \in DOMAIN disk.docs :
                /\ Facet_to_string(disk.docs[i].location) = PathOfRecord(r)
                /\ Text_from_document(disk.docs[i])
                      = Some([book |-> Books[r.book], chapter |-> r.chapter,
                              verse |-> r.verse, content |-> r.text])

\* C15 witness: the first translation is committed with a record of
\* Genesis and a record of Psalms whose header pads the chapter and the
\* verse with zeros.
C15_Witness ==
    /\ fpc = "write_asv"
    /\ \E r, q \in KjvRecords :
          /\ r.book = 1
          /\ q.book = 19 /\ q.chapter = 23 /\ q.verse = 2
    /\ Len(disk.docs) >= 2

----------------------------------------------------------------------------
(* Properties of first_numeric_nonnumeric_transition *)

\* The 0-based byte offsets of the characters of s after the first that
\* are not whitespace and differ from the first character in being
\* alphabetic or not.
TransitionOffsets(s) ==
    {i \in 1..(Len(s) - 1) :
        /\ IsCharBoundaryByte(s[i + 1])
        /\ ~is_whitespace(s[i + 1])
        /\ is_alphabetic(s[i + 1]) # is_alphabetic(s[1])}

\* C16: first_numeric_nonnumeric_transition returns None for the empty
\* string and for a string none of whose characters after the first is a
\* non-whitespace character that differs from the first in being
\* alphabetic, and otherwise Some of the byte index of the first such
\* character: Some(2) for "1 Kings", Some(1) for "1Kings", Some(5) for
\* "Kings1", Some(6) for "Kings 1", None for "Exodus".
C16_TransitionIsFirstDifferingCharacter ==
    bookTransition # None =>
        /\ bookTransition[1].panic = FALSE
        /\ bookTransition[1].idx =
              (IF TransitionOffsets(bookInput) = {} THEN None
               ELSE Some(Min(TransitionOffsets(bookInput))))
        /\ bookInput = <<"1", " ", "K", "i", "n", "g", "s">> => bookTransition[1].idx = Some(2)
        /\ bookInput = <<"1", "K", "i", "n", "g", "s">> => bookTransition[1].idx = Some(1)
        /\ bookInput = <<"K", "i", "n", "g", "s", "1">> => bookTransition[1].idx = Some(5)
        /\ bookInput = <<"K", "i", "n", "g", "s", " ", "1">> => bookTransition[1].idx = Some(6)
        /\ bookInput = <<"E", "x", "o", "d", "u", "s">> => bookTransition[1].idx = None

----------------------------------------------------------------------------
(* Properties of Book::from_str on qualifiers *)

\* C17: the name of a book that has no numbered variants, with a number
\* before or after it, is not parsed to a book: Book::from_str returns a
\* ParseBookError.
C17_StrayNumberIsAnError ==
    (bookResult # None /\ bookInput \in StrayNumberInputs) =>
        bookResult[1].tag = "Err"

\* The value of a string of decimal digits.
RECURSIVE DecimalValue(_)
DecimalValue(digits) ==
    IF digits = <<>> THEN 0
    ELSE 10 * DecimalValue(SubSeq(digits, 1, Len(digits) - 1)) + DigitVal(digits[Len(digits)])

\* The number side of a string with a transition: of the two sides of the
\* transition, trimmed, the left one if it has a digit and else the right
\* one.
NumberSide(s) ==
    LET idx   == Min(TransitionOffsets(s))
        left  == trim(SubSeq(s, 1, idx))
        right == trim(SubSeq(s, idx + 1, Len(s)))
    IN  IF \E i \in DOMAIN left : is_ascii_digit(left[i]) THEN left ELSE right

\* A number side that is an integer in 1..=255 with no residue.
IsQualifier(side) ==
    /\ side # <<>>
    /\ \A i \in DOMAIN side : is_ascii_digit(side[i])
    /\ DecimalValue(side) \in 1..U8Max

\* C18: when the string has a transition and its number side is not an
\* integer in 1..=255 written in digits alone (it is 0, above 255, or has
\* a byte that is not a digit), Book::from_str returns a ParseBookError.
C18_BadNumberSideIsAnError ==
    (bookResult # None /\ TransitionOffsets(bookInput) # {}
        /\ ~IsQualifier(NumberSide(bookInput))) =>
        bookResult[1].tag = "Err"

\* C19: a string that is the display name of a book in any ASCII casing,
\* with or without whitespace before and after it, is accepted and gives
\* that book.
C19_CaseAndPaddingAreIgnored ==
    bookResult # None =>
        \A b \in AllBooks :
            to_ascii_uppercase(trim(bookInput)) = to_ascii_uppercase(Book_name(b))
                => bookResult[1] = BookOk(b)

----------------------------------------------------------------------------
(* Properties of the parsers on any input *)

\* C22: Book::from_str and PartialLocation::from_str return Ok or an Err
\* value on every input string; neither panics.
C22_ParsersNeverPanic ==
    /\ bookResult # None => bookResult[1].tag \in {"Ok", "Err"}
    /\ locResult # None => locResult[1].tag \in {"Ok", "Err"}

----------------------------------------------------------------------------
(* Properties of the order of the corpus index *)

\* The values of a sequence in the order of their first occurrence.
RECURSIVE FirstSeen(_)
FirstSeen(s) ==
    IF s = <<>> THEN <<>>
    ELSE LET before == FirstSeen(SubSeq(s, 1, Len(s) - 1))
         IN  IF s[Len(s)] \in Range(before) THEN before ELSE Append(before, s[Len(s)])

\* The keys of an IndexMap in iteration order.
Keys(map) == [i \in DOMAIN map |-> map[i].key]

\* The records of the lines build_index has consumed, in corpus order.
ConsumedRecords == [i \in 1..cursor |-> RecordOfLine(lines(corpus)[i])]

\* C23: at each level of the index the keys iterate in the order in which
\* the corpus lines consumed so far first brought them: books, the
\* chapters of each book, the verses of each chapter; a printed book
\* lists its chapters in that order.
C23_IndexKeepsFirstEncounterOrder ==
    pc \in {"build", "built", "done", "panic"} =>
        LET recs == ConsumedRecords
        IN  /\ Keys(index) = FirstSeen([i \in DOMAIN recs |-> Books[recs[i].book]])
            /\ \A b \in DOMAIN index :
                  LET ofBook == SelectSeq(recs, LAMBDA r : Books[r.book] = index[b].key)
                  IN  /\ Keys(index[b].value)
                            = FirstSeen([i \in DOMAIN ofBook |-> ofBook[i].chapter])
                      /\ \A c \in DOMAIN index[b].value :
                            LET ofChapter ==
                                    SelectSeq(ofBook,
                                              LAMBDA r : r.chapter = index[b].value[c].key)
                            IN  Keys(index[b].value[c].value)
                                    = FirstSeen([i \in DOMAIN ofChapter |-> ofChapter[i].verse])
            /\ (pc = "done" /\ request[1].location = None /\ outcome[1].tag = "Ok") =>
                  LET ofBook == SelectSeq(recs, LAMBDA r : Books[r.book] = request[1].book)
                  IN  FirstSeen([i \in DOMAIN outcome[1].rows |-> outcome[1].rows[i].chapter])
                          = FirstSeen([i \in DOMAIN ofBook |-> ofBook[i].chapter])

\* C23 witness: the index is built from a corpus that brings Psalms before
\* Genesis and, after Genesis, a verse of Psalms 23 smaller than the one
\* it brought first.
C23_Witness ==
    /\ pc = "built"
    /\ cursor = 3
    /\ Keys(index) = <<"Psalms", "Genesis">>
    /\ Keys(index[1].value) = <<23>>
    /\ Keys(index[1].value[1].value) = <<2, 1>>

----------------------------------------------------------------------------
(* Properties of the index written from the corpus *)

\* A line whose first eight bytes are decimal digits.
HasDigitHeader(line) ==
    Len(line) >= 8 /\ \A i \in 1..8 : is_ascii_digit(line[i])

\* C24: write_index does not complete on a corpus that has a line with a
\* malformed header: when the first translation is committed, every line
\* of its corpus has a header of eight digits.
C24_MalformedHeaderAbortsWriteIndex ==
    fpc = "write_asv" =>
        \A line \in Range(lines(dat.Kjv)) : HasDigitHeader(line)

----------------------------------------------------------------------------
(* Properties of Book::from_u8 *)

\* C25: Book::from_u8 gives, for every number from 1 to 66, the book
\* whose discriminant is the number, every book being given for its own
\* discriminant, and panics for 0 and for every number above 66.
C25_FromU8IsTheOrdinal ==
    bookOrdinal # None =>
        LET u == bookOrdinal[1]
        IN  /\ u \in 1..66 =>
                  /\ bookConverted[1] # None
                  /\ bookConverted[1][1] \in AllBooks
                  /\ Book_as_u8(bookConverted[1][1]) = u
            /\ \A b \in AllBooks : Book_as_u8(b) = u => bookConverted[1] = Some(b)
            /\ u \notin 1..66 => bookConverted[1] = None

\* C25 witness: 66 has been converted to the last book, Revelation.
C25_Witness ==
    /\ bookOrdinal = Some(66)
    /\ bookConverted = Some(Some("Revelation"))
----------------------------------------------------------------------------
(* Properties of SplitWindows::windows *)

\* The 0-based offsets of the word starts of a text: a word character that
\* is the first character of the text or follows a character that is not a
\* word character.
WordStartOffsets(text) ==
    {i \in 0..(Len(text) - 1) :
        /\ is_char_boundary(text, i)
        /\ is_word_byte(text[i + 1])
        /\ \A j \in 0..(i - 1) :
               (is_char_boundary(text, j) /\ \A k \in (j + 1)..(i - 1) : ~is_char_boundary(text, k))
                   => ~is_word_byte(text[j + 1])}

\* The slices text[i..i + len] at the offsets given, from left to right.
SlicesAt(text, len, offsets) ==
    LET Before(i) == Cardinality({j \in offsets : j < i})
    IN  [k \in 1..Cardinality(offsets) |->
            LET i == CHOOSE o \in offsets : Before(o) = k - 1
            IN  SubSeq(text, i + 1, i + len)]

\* C26 as stated: windows yields, from left to right, exactly the slices
\* text[i..i + len] of the word starts i for which i + len does not exceed
\* the length of the text.
C26_WindowsAreSlicesThatFit ==
    winOutput # None =>
        LET text == winInput[1].text
            len == winInput[1].len
        IN  winOutput[1] =
                SlicesAt(text, len, {i \in WordStartOffsets(text) : i + len <= Len(text)})

\* C26, amended: windows yields, from left to right, exactly the slices
\* text[i..i + len] of the word starts i for which i + len does not exceed
\* the length of the text and is a character boundary of it.
C26_WindowsAreSlicesOnBoundaries ==
    winOutput # None =>
        LET text == winInput[1].text
            len == winInput[1].len
        IN  winOutput[1] =
                SlicesAt(text, len,
                         {i \in WordStartOffsets(text) :
                             i + len <= Len(text) /\ is_char_boundary(text, i + len)})

\* C26 witness: the text of the test with length 3 gave HOW, NOW, BRO, COW,
\* the window of the last word being as long as what is left of the text.
C26_Witness ==
    /\ winOutput # None
    /\ winInput[1].text = HowNowBrownCow
    /\ winInput[1].len = 3
    /\ winOutput[1] = <<<<"H", "O", "W">>, <<"N", "O", "W">>, <<"B", "R", "O">>, <<"C", "O", "W">>>>
----------------------------------------------------------------------------
(* Properties of format_texts *)

\* Text i of the list opens a section: it is the first, or not of the book
\* and chapter of the text before it.
SectionStart(list, i) ==
    i = 1 \/ list[i].book # list[i - 1].book \/ list[i].chapter # list[i - 1].chapter

\* Text i of the list ends a section.
SectionEnd(list, i) == i = Len(list) \/ SectionStart(list, i + 1)

\* The number of texts of the section that text i ends.
SectionSize(list, i) ==
    i + 1 - (CHOOSE j \in 1..i :
                SectionStart(list, j) /\ \A k \in (j + 1)..i : ~SectionStart(list, k))

\* What a row is: a header, a verse, a chapter link, a verse link.
RowKind(r) ==
    IF r.row = "reference"
    THEN (IF r.locator.verse = None THEN "chapter link" ELSE "verse link")
    ELSE r.row

\* The kinds of rows from text i on: a header before the first text of a
\* section, a verse for every text, a link after the last text of a
\* section, to the chapter if the section has several verses.
RECURSIVE ExpectedKinds(_, _)
ExpectedKinds(list, i) ==
    IF i > Len(list) THEN <<>>
    ELSE (IF SectionStart(list, i) THEN <<"header">> ELSE <<>>)
         \o <<"verse">>
         \o (IF ~SectionEnd(list, i) THEN <<>>
             ELSE IF SectionSize(list, i) > 1 THEN <<"chapter link">>
             ELSE <<"verse link">>)
         \o ExpectedKinds(list, i + 1)

IsVerseRow(r) == r.row = "verse"

\* C27: when format_texts is done, the table has, for every section of the
\* list in order, one header row, the verse rows of its texts, and one
\* reference row that is a chapter link if the section has several verses
\* and a verse link if it has one; the verse rows are those of the texts,
\* each once, in the order of the list.
C27_OneHeaderAndOneFittingLinkPerSection ==
    fmtpc = "done" =>
        /\ [p \in 1..Len(table) |-> RowKind(table[p])] = ExpectedKinds(listed, 1)
        /\ SelectSeq(table, IsVerseRow) = [i \in 1..Len(listed) |-> VerseRow(listed[i])]

\* C27 witness: a list of a section of two verses and a section of one verse
\* was formatted: the table has two headers, a chapter link and a verse link.
C27_Witness ==
    /\ fmtpc = "done"
    /\ Len(listed) = 3
    /\ ~SectionStart(listed, 2)
    /\ SectionStart(listed, 3)
    /\ [p \in 1..Len(table) |-> RowKind(table[p])] =
           <<"header", "verse", "verse", "chapter link", "header", "verse", "verse link">>

\* The index in the list of the last text whose verse row is above row p.
TextAbove(p) == Cardinality({q \in 1..(p - 1) : table[q].row = "verse"})

\* C28: when format_texts is done, every reference row points at the book
\* and chapter of the section it closes, the section of the verse row above
\* it, and after a section of one verse at the verse of that section.
C28_ReferencePointsAtClosedSection ==
    fmtpc = "done" =>
        \A p \in 1..Len(table) :
            table[p].row = "reference" =>
                LET i == TextAbove(p)
                IN  /\ i \in 1..Len(listed)
                    /\ table[p].locator.book = listed[i].book
                    /\ table[p].locator.chapter = listed[i].chapter
                    /\ SectionSize(listed, i) = 1
                           => table[p].locator.verse = Some(listed[i].verse)
----------------------------------------------------------------------------
(* Properties of initialize_search *)

\* The lines of the corpus of a translation that are records: a header of
\* eight digits, a separator, a text.
RecordLines(translation) ==
    {line \in Range(lines(dat[translation])) : HasDigitHeader(line) /\ Len(line) >= 9}

\* The documents of the index that hold the record of a line of a
\* translation: its translation, the path of its header, its text.
DocumentsOfLine(translation, line) ==
    LET address == [book    |-> parse_unsigned(SubSeq(line, 1, 2), U8Max).val,
                    chapter |-> parse_unsigned(SubSeq(line, 3, 5), U16Max).val,
                    verse   |-> parse_unsigned(SubSeq(line, 6, 8), U16Max).val]
    IN  {i \in DOMAIN disk.docs :
            /\ disk.docs[i].translation = Translation_facet(translation)
            /\ Facet_to_string(disk.docs[i].location) = PathOfRecord(address)
            /\ disk.docs[i].content = SubSeq(line, 10, Len(line))}

\* C29: whenever initialize_search has returned an index, created or
\* reopened, the index has every record of the corpus of either translation
\* exactly once.
C29_ReturnedIndexHasEveryRecordOnce ==
    fpc = "ready" =>
        \A translation \in {"Kjv", "Asv"} :
            \A line \in RecordLines(translation) :
                Cardinality(DocumentsOfLine(translation, line)) = 1
----------------------------------------------------------------------------
(* Properties of edit_distance *)

\* C30: for every query, the empty query and a query longer than every line
\* among them, search does not fail, and edit_distance gives for every line
\* of the corpus None or Some(d) with 0 <= d <= |query|, None when the
\* query is longer than the text of the line.
C30_EditDistanceIsDefinedForEveryQuery ==
    needle # None =>
        /\ pc # "panic"
        /\ \A line \in CorpusLines :
               LET q    == UpperNeedle
                   text == UpperText(line)
                   r    == edit_distance(q, text)
               IN  /\ ~r.panic
                   /\ r.distance # None => r.distance[1] \in 0..Len(q)
                   /\ Len(q) > Len(text) => r.distance = None

====
